---------------------------- MODULE Spec2Model ----------------------------
(***************************************************************************)
(* A shared JSON document served by one authority (the cluster primary)    *)
(* to worker proxies: djs.ts (src/unnamed/part_000), the lockMethod        *)
(* wrapper (src/utils/lockMethod/index.ts), the selector resolver and the  *)
(* counter scenario (src/test.ts).                                         *)
(*                                                                         *)
(* Every process is a single-threaded event loop.  A task is "ready" when  *)
(* its continuation runs in the current turn of the loop (promise jobs);   *)
(* messages, timers and I/O completions of a process are taken only when   *)
(* none of its tasks is ready.                                             *)
(***************************************************************************)
EXTENDS Integers, Sequences, FiniteSets, TLC

(***************************************************************************)
(* Bounds of the model.                                                    *)
(***************************************************************************)
MaxId == 2        \* generateQueryId draws from 1..MaxId; a token can also be 0
MaxTry == 2       \* polling attempts of a bounded wait (30 in the code)
MaxFired == 1     \* timers of 5e3 (a proxy's wait, a token, primaryLock) that
                  \* fire in one run
NUM_WORKERS == 2  \* workers forked (3 in test.ts)
TX_PER_WORKER == 2 \* transactions each worker runs one after the other (3 in test.ts)
TX_PRIMARY == 2   \* transactions the primary runs one after the other

(***************************************************************************)
(* JSON values.  Every value is a record [t, v]; t is the JavaScript type. *)
(***************************************************************************)
Undef == [t |-> "undefined", v |-> 0]
NaN == [t |-> "nan", v |-> 0]
True == [t |-> "bool", v |-> 1]
False == [t |-> "bool", v |-> 0]
Num(n) == [t |-> "num", v |-> n]
Arr(s) == [t |-> "arr", v |-> s]
Obj(f) == [t |-> "obj", v |-> f]
Null == [t |-> "null", v |-> 0]
\* an array object that also has properties that are not indices
ArrP(s, props) ==
    IF DOMAIN props = {} THEN Arr(s)
    ELSE [t |-> "arrp", v |-> [elems |-> s, props |-> props]]
Elems(x) == IF x.t = "arrp" THEN x.v.elems ELSE x.v
Props(x) == IF x.t = "arrp" THEN x.v.props ELSE <<>>

\* what JSON keeps of a value: NaN and undefined elements become null, a
\* field whose value is undefined and the properties of an array are dropped
RECURSIVE ToJSON(_)
ToJSON(d) ==
    CASE d.t = "obj" ->
            Obj([k \in {x \in DOMAIN d.v : d.v[x].t # "undefined"} |-> ToJSON(d.v[k])])
      [] d.t \in {"arr", "arrp"} ->
            Arr([i \in 1..Len(Elems(d)) |->
                    IF Elems(d)[i].t = "undefined" THEN Null
                    ELSE ToJSON(Elems(d)[i])])
      [] d.t = "nan" -> Null
      [] OTHER -> d

\* JSON.stringify(d): the text of d, a string; JSON.parse gives back what
\* JSON keeps of d
Stringify(d) == [t |-> "str", v |-> ToJSON(d)]
Parse(s) == s.v
NoFile == [t |-> "nofile", v |-> 0]

\* typeof x === "object" && Array.isArray(x)
IsArray(x) == x.t \in {"arr", "arrp"}
\* typeof x == "object" (null and arrays included)
IsObject(x) == x.t \in {"obj", "arr", "arrp", "null"}
\* typeof x == "object" && !!x && !Array.isArray(x)
IsRecord(x) == x.t = "obj"

\* obj[key] in JavaScript, for the keys the model uses (names of fields)
Prop(obj, key) ==
    IF obj.t = "obj" /\ key \in DOMAIN obj.v THEN obj.v[key] ELSE Undef

RECURSIVE recursiveSelect(_, _)
recursiveSelect(selector, obj) ==
    IF selector = <<>> THEN obj
    ELSE recursiveSelect(Tail(selector), Prop(obj, Head(selector)))

rs(selector, obj) == recursiveSelect(selector, obj)

\* the document with the value at selector (which resolves) replaced by val:
\* the effect on data of mutating the resolved target in place
RECURSIVE PutAt(_, _, _)
PutAt(data, selector, val) ==
    IF selector = <<>> THEN val
    ELSE Obj([k \in DOMAIN data.v |->
                IF k = Head(selector) THEN PutAt(data.v[k], Tail(selector), val)
                ELSE data.v[k]])

\* the keys that are array indices, and the index (from 0) each names
IndexKeys == {"0"}
IndexOf(key) == 0

\* target[key] = value on a record; on an array the element at an index key
\* (the array grows by one when the index is its length), else a property
SetKey(target, key, value) ==
    IF target.t = "obj"
    THEN Obj([k \in DOMAIN target.v \cup {key} |->
                IF k = key THEN value ELSE target.v[k]])
    ELSE IF key \in IndexKeys /\ IndexOf(key) <= Len(Elems(target))
    THEN ArrP([i \in 1..(IF IndexOf(key) = Len(Elems(target))
                         THEN Len(Elems(target)) + 1 ELSE Len(Elems(target))) |->
                 IF i = IndexOf(key) + 1 THEN value ELSE Elems(target)[i]],
              Props(target))
    ELSE ArrP(Elems(target),
              [k \in DOMAIN Props(target) \cup {key} |->
                 IF k = key THEN value ELSE Props(target)[k]])

\* a == b of JavaScript on the values of the model: two objects are equal
\* only when they are one object, which an element and an argument are not
LooseEq(a, b) ==
    CASE IsObject(a) /\ a.t # "null" -> FALSE
      [] IsObject(b) /\ b.t # "null" -> FALSE
      [] a.t \in {"undefined", "null"} -> b.t \in {"undefined", "null"}
      [] a.t = "nan" \/ b.t = "nan" -> FALSE
      [] OTHER -> a = b

\* a === b likewise
StrictEq(a, b) ==
    ~(IsObject(a) /\ a.t # "null") /\ a.t # "nan" /\ a = b

\* (s as any) + 1
PlusOne(s) == IF s.t = "num" THEN Num(s.v + 1) ELSE NaN


(***************************************************************************)
(* State.                                                                  *)
(***************************************************************************)
VARIABLES
    manager,      \* the manager's redis client (or none), the initialContent given
                  \* to makeDynamicJson, and how far makeDynamicJson has got
    source,       \* source.type: "inMemory", "jsonFile" or "redis"
    inMemory,     \* the authority's in-memory document
    disk,         \* the file / the redis key: the stored text, or NoFile
    lockId,       \* the authority's token; 0 is null
    lockIdTimer,  \* expiry timers: cur, the handle in lockIdTimer, is armed;
                  \* stale counts armed timers whose handle was overwritten
    primaryLock,  \* locked, and the timers of primaryLock.timeout likewise
    redisLockId,  \* token of the distributed mutex held by lockRedis; 0 is null
    dmutex,       \* the distributed mutex: 0 free, 1 held by this authority
    relPending,   \* releases of the distributed mutex sent and not yet done
    alock,        \* queue of the AsyncLock named uniqueEventId; its head holds it
    tasks,        \* the authority's coroutines: callers on the primary (key f)
                  \* and listener invocations (key -rid)
    bodies,       \* mutation bodies started by lockMethod and not yet finished
    listening,    \* workers whose "message" listener is registered
    toPrimary,    \* per worker, requests sent and not yet received
    toWorker,     \* per worker, responses sent and not yet received
    wLockId,      \* per worker, the proxy's lockId; 0 is undefined
    wfib,         \* callers on the workers
    pending,      \* handlers registered by waitForQueryNumber
    sent,         \* per request envelope: responses sent for it
    log           \* observations of the run the properties speak about

avars == <<manager, source, inMemory, disk, lockId, lockIdTimer, primaryLock,
           redisLockId, dmutex, relPending, alock, tasks, bodies>>
wvars == <<listening, toPrimary, toWorker, wLockId, wfib, pending, sent>>
vars == <<avars, wvars, log>>

Workers == 1..NUM_WORKERS
QueryIds == 1..MaxId

\* Math.floor(Math.random() * 10e10): any id of the range
generateQueryId == QueryIds

\* Ids are only compared for equality, so which of the ids that occur nowhere
\* in the state is drawn makes no difference: the least stands for all of them.
Draw(ids, used) ==
    (ids \cap used) \cup
    (IF ids \subseteq used THEN {}
     ELSE {CHOOSE i \in ids \ used : \A j \in ids \ used : i <= j})

Range(seq) == {seq[i] : i \in DOMAIN seq}

\* the correlation ids worker w's process can still meet
QueryIdsOf(w) ==
    {h.queryId : h \in {x \in pending : wfib[x.f].home = w}}
    \cup {m.qid : m \in Range(toPrimary[w])}
    \cup {tasks[t].qid : t \in {x \in DOMAIN tasks : tasks[x].w = w}}
    \cup {m.queryId : m \in Range(toWorker[w])}

\* the tokens some process can still meet
Tokens ==
    {lockId} \cup {wLockId[w] : w \in DOMAIN wLockId}
    \cup UNION {{m.q.lockId : m \in Range(toPrimary[w])} : w \in DOMAIN toPrimary}
    \cup {tasks[t].q.lockId : t \in DOMAIN tasks}
    \cup UNION {{m.result.v : m \in {x \in Range(toWorker[w]) : x.result.t = "num"}}
                : w \in DOMAIN toWorker}
    \cup {wfib[f].res.v : f \in {x \in DOMAIN wfib : wfib[x].res.t = "num"}}

Sources == {"inMemory", "jsonFile", "redis"}
MutationTypes == {"set", "push", "unshift", "arraySet", "pop",
                  "removeItemFromArray", "updateItemInArray", "shift", "splice",
                  "updateJsonFromProvided"}

(***************************************************************************)
(* The operations on a loaded snapshot.                                    *)
(***************************************************************************)
\* a query: what the proxy puts in the envelope, or the arguments of a call
\* on the authority; cid names the call of the user's program it belongs to
Query(type, selector, key, value, cid) ==
    [type |-> type, selector |-> selector, key |-> key, value |-> value,
     lockId |-> 0, cid |-> cid]

\* a faulty setDirect: the key is set on a copy of the target, {...target}
ApplySetOnCopy(q, data) ==
    LET target == rs(q.selector, data) IN
    IF IsRecord(target)
    THEN [ok |-> TRUE, result |-> True, data |-> data]
    ELSE [ok |-> FALSE, result |-> False, data |-> data]

\* a faulty setDirect: any object is taken as the target, as batch does
ApplySetAnyObject(q, data) ==
    LET target == rs(q.selector, data) IN
    IF IsObject(target) /\ target.t # "null"
    THEN [ok |-> TRUE, result |-> True,
          data |-> PutAt(data, q.selector, SetKey(target, q.key, q.value))]
    ELSE [ok |-> FALSE, result |-> False, data |-> data]

\* setDirect's body after getAllData
ApplySet(q, data) ==
    LET target == rs(q.selector, data) IN
    IF IsRecord(target)
    THEN [ok |-> TRUE, result |-> True,
          data |-> PutAt(data, q.selector, SetKey(target, q.key, q.value))]
    ELSE [ok |-> FALSE, result |-> False, data |-> data]

\* pushDirect's body after getAllData
ApplyPush(q, data) ==
    LET target == rs(q.selector, data) IN
    IF IsArray(target)
    THEN [ok |-> TRUE, result |-> True,
          data |-> PutAt(data, q.selector,
                         ArrP(Append(Elems(target), q.value), Props(target)))]
    ELSE [ok |-> FALSE, result |-> False, data |-> data]

\* the arguments of a call that has more than one value
Args(kind, r) == [t |-> kind, v |-> r]

\* unshiftDirect's body after getAllData
ApplyUnshift(q, data) ==
    LET target == rs(q.selector, data) IN
    IF IsArray(target)
    THEN [ok |-> TRUE, result |-> True,
          data |-> PutAt(data, q.selector,
                         ArrP(<<q.value>> \o Elems(target), Props(target)))]
    ELSE [ok |-> FALSE, result |-> False, data |-> data]

\* popDirect's body after getAllData: update(data) also on an empty array
ApplyPop(q, data) ==
    LET target == rs(q.selector, data)
        n == Len(Elems(target))
    IN
    IF IsArray(target)
    THEN [ok |-> TRUE,
          result |-> IF n = 0 THEN Undef ELSE Elems(target)[n],
          data |-> PutAt(data, q.selector,
                         ArrP(SubSeq(Elems(target), 1, n - 1), Props(target)))]
    ELSE [ok |-> FALSE, result |-> False, data |-> data]

\* shiftDirect's body after getAllData
ApplyShift(q, data) ==
    LET target == rs(q.selector, data)
        n == Len(Elems(target))
    IN
    IF IsArray(target)
    THEN [ok |-> TRUE,
          result |-> IF n = 0 THEN Undef ELSE Elems(target)[1],
          data |-> PutAt(data, q.selector,
                         ArrP(SubSeq(Elems(target), 2, n), Props(target)))]
    ELSE [ok |-> FALSE, result |-> False, data |-> data]

Min(a, b) == IF a < b THEN a ELSE b
Max(a, b) == IF a > b THEN a ELSE b

\* Array.prototype.splice(start, deleteCount) on a sequence: what is removed
\* and what is left
Splice(elems, start, deleteCount) ==
    LET n == Len(elems)
        from == IF start < 0 THEN Max(n + start, 0) ELSE Min(start, n)
        cnt == Min(Max(deleteCount, 0), n - from)
    IN [removed |-> SubSeq(elems, from + 1, from + cnt),
        rest |-> SubSeq(elems, 1, from) \o SubSeq(elems, from + cnt + 1, n)]

\* spliceDirect's body after getAllData
ApplySplice(q, data) ==
    LET target == rs(q.selector, data)
        sp == Splice(Elems(target), q.value.v.startIndex, q.value.v.deleteCount)
    IN
    IF IsArray(target)
    THEN [ok |-> TRUE, result |-> Arr(sp.removed),
          data |-> PutAt(data, q.selector, ArrP(sp.rest, Props(target)))]
    ELSE [ok |-> FALSE, result |-> False, data |-> data]

\* target.findIndex(ti => !key ? ti == item : ti[key] == item[key]), from 1;
\* 0 when there is none.  strict: the comparison without key is ===
FindIndex(elems, item, key, strict) ==
    LET hit == {i \in 1..Len(elems) :
                  IF key = ""
                  THEN IF strict THEN StrictEq(elems[i], item)
                       ELSE LooseEq(elems[i], item)
                  ELSE LooseEq(Prop(elems[i], key), Prop(item, key))}
    IN IF hit = {} THEN 0 ELSE CHOOSE i \in hit : \A j \in hit : i <= j

RemoveAt(elems, i) == SubSeq(elems, 1, i - 1) \o SubSeq(elems, i + 1, Len(elems))

\* removeItemFromArrayDirect's body after getAllData
ApplyRemoveItem(q, data) ==
    LET target == rs(q.selector, data)
        i == FindIndex(Elems(target), q.value, q.key, FALSE)
    IN
    IF IsArray(target) /\ i # 0
    THEN [ok |-> TRUE, result |-> True,
          data |-> PutAt(data, q.selector,
                         ArrP(RemoveAt(Elems(target), i), Props(target)))]
    ELSE [ok |-> FALSE, result |-> False, data |-> data]

\* { ...element, updatedItem }: the fields of the element and one field named
\* updatedItem (the elements of the model are records and numbers)
SpreadWith(element, updatedItem) ==
    LET r == IF element.t = "obj" THEN element.v ELSE <<>> IN
    Obj([k \in DOMAIN r \cup {"updatedItem"} |->
            IF k = "updatedItem" THEN updatedItem ELSE r[k]])

\* updateItemInArrayDirect's body after getAllData
ApplyUpdateItem(q, data) ==
    LET target == rs(q.selector, data)
        i == FindIndex(Elems(target), q.value.v.item, q.key, TRUE)
    IN
    IF IsArray(target) /\ i # 0
    THEN [ok |-> TRUE, result |-> True,
          data |-> PutAt(data, q.selector,
                ArrP([j \in 1..Len(Elems(target)) |->
                        IF j # i THEN Elems(target)[j]
                        ELSE IF IsObject(Elems(target)[j])
                        THEN SpreadWith(Elems(target)[j], q.value.v.updatedItem)
                        ELSE q.value.v.updatedItem],
                     Props(target)))]
    ELSE [ok |-> FALSE, result |-> False, data |-> data]

\* one turn of batchSetDirect's loop
BatchStep(query, data) ==
    LET target == rs(query.selector, data) IN
    CASE query.type = "push" /\ IsArray(target) ->
            PutAt(data, query.selector,
                  ArrP(Append(Elems(target), query.value), Props(target)))
      [] query.type = "unshift" /\ IsArray(target) ->
            PutAt(data, query.selector,
                  ArrP(<<query.value>> \o Elems(target), Props(target)))
      [] query.type = "set" /\ IsObject(target) /\ target.t # "null" ->
            PutAt(data, query.selector, SetKey(target, query.key, query.value))
      [] OTHER -> data

RECURSIVE BatchData(_, _)
BatchData(queries, data) ==
    IF queries = <<>> THEN data
    ELSE BatchData(Tail(queries), BatchStep(Head(queries), data))

\* batchSetDirect's body after getAllData: update(data) in every case
ApplyBatch(q, data) ==
    [ok |-> TRUE, result |-> Undef, data |-> BatchData(q.value.v, data)]

\* ok: update(data) is called; result: what the body returns
Apply(q, data) ==
    CASE q.type = "set" -> ApplySet(q, data)
      [] q.type = "push" -> ApplyPush(q, data)
      [] q.type = "unshift" -> ApplyUnshift(q, data)
      [] q.type = "pop" -> ApplyPop(q, data)
      [] q.type = "shift" -> ApplyShift(q, data)
      [] q.type = "splice" -> ApplySplice(q, data)
      [] q.type = "removeItemFromArray" -> ApplyRemoveItem(q, data)
      [] q.type = "updateItemInArray" -> ApplyUpdateItem(q, data)
      [] q.type = "arraySet" -> ApplyBatch(q, data)
      [] OTHER -> [ok |-> FALSE, result |-> Undef, data |-> data]

\* getAllData(): the in-memory object, the parsed file, or the text of the
\* redis key as it is; {} when there is none
getAllData ==
    IF source = "inMemory" THEN inMemory
    ELSE IF disk = NoFile THEN Obj(<<>>)
    ELSE IF source = "jsonFile" THEN Parse(disk)
    ELSE disk

\* update(data): the text written to the file or the key
update(data) == Stringify(data)


(***************************************************************************)
(* Tasks of the authority.                                                 *)
(***************************************************************************)
NoQuery == Query("none", <<>>, "", Undef, 0)

Task(kind, w, rid, qid, q, pc, script) ==
    [kind |-> kind, w |-> w, rid |-> rid, qid |-> qid, q |-> q, pc |-> pc,
     ret |-> "idle", tryCount |-> 0, s |-> Undef, res |-> Undef, err |-> FALSE,
     script |-> script]

LocalTask(script) == Task("local", 0, 0, 0, NoQuery, "idle", script)

\* the pcs at which a task runs on in the current turn of the event loop
ReadyPcs == {"get", "mutAcq", "txStart", "txRedis", "cbSet", "cbEnd",
             "gate1", "gate2", "dispatch", "respond"}

Ready(t) ==
    \/ tasks[t].pc \in ReadyPcs
    \/ tasks[t].pc = "idle" /\ tasks[t].script # <<>>
    \/ tasks[t].pc = "mutQueued" /\ alock # <<>> /\ Head(alock) = t

\* the primary's turn of the event loop is over
NoReady == \A t \in DOMAIN tasks : ~Ready(t)

\* a caller on a worker runs on in the current turn of its event loop
WReady(f) ==
    \/ wfib[f].pc = "resumed"
    \/ wfib[f].pc = "idle" /\ wfib[f].script # <<>>

\* every turn is over: an event loop takes its next message, timer or I/O
\* completion.  A turn is atomic: no other process sees inside it.
Idle == NoReady /\ \A f \in DOMAIN wfib : ~WReady(f)

SetTask(t, rec) == [tasks EXCEPT ![t] = rec]

\* where a call returns to: a rejected call of the user's program ends it
Return(task, res, err) ==
    [task EXCEPT !.pc = IF err /\ task.ret = "idle" THEN "failed" ELSE task.ret,
                 !.res = res, !.err = err]

(***************************************************************************)
(* lockMethod: the wrapper of djs.ts inside the wrapper of utils.          *)
(***************************************************************************)
\* lockRedis(force) goes to the distributed mutex
LockRedisCond(force) ==
    ((lockId = 0 /\ ~primaryLock.locked) \/ force) /\ source = "redis"

\* releaseRedis(force) sends a release
ReleaseRedisCond(force, token) ==
    ((lockId = 0 /\ ~primaryLock.locked) \/ force) /\ source = "redis" /\ token # 0

\* method(...args), not awaited: on the in-memory object the body has run
\* when the wrapper's caller runs on; on a file or a key it has started to load
\* updateJsonFromProvided's body is `return await update(newData)`: it does
\* not touch the in-memory object
MethodInMemory(q) ==
    IF source = "inMemory" THEN Apply(q, inMemory).data ELSE inMemory

\* w: the worker whose request the body serves, 0 for a caller on the primary
MethodBodies(q, w) ==
    IF source = "inMemory" THEN bodies
    ELSE IF q.type = "updateJsonFromProvided"
    THEN bodies \cup {[cid |-> q.cid, w |-> w, q |-> q, stage |-> "write",
                        data |-> q.value]}
    ELSE bodies \cup {[cid |-> q.cid, w |-> w, q |-> q, stage |-> "load",
                        data |-> Undef]}

\* the wrapper from method(...args) on: the body is started, releaseRedis()
\* is called, the wrapper returns undefined and the AsyncLock passes on
RunMethod(t, rest) ==
    /\ inMemory' = MethodInMemory(tasks[t].q)
    /\ bodies' = MethodBodies(tasks[t].q, tasks[t].w)
    /\ relPending' = IF ReleaseRedisCond(FALSE, redisLockId')
                     THEN relPending + 1 ELSE relPending
    /\ alock' = rest
    /\ tasks' = SetTask(t, Return(tasks[t], Undef, FALSE))

\* lock.acquire(lockName, ...): the function runs at once when the queue is
\* empty; `await lockRedis()` then waits for redis or goes on
MutAcquire(t) ==
    /\ tasks[t].pc = "mutAcq"
    /\ IF alock # <<>>
       THEN /\ alock' = Append(alock, t)
            /\ tasks' = SetTask(t, [tasks[t] EXCEPT !.pc = "mutQueued"])
            /\ UNCHANGED <<inMemory, bodies, relPending, redisLockId>>
       ELSE IF LockRedisCond(FALSE)
       THEN /\ alock' = <<t>>
            /\ tasks' = SetTask(t, [tasks[t] EXCEPT !.pc = "mutRedisIO"])
            /\ UNCHANGED <<inMemory, bodies, relPending, redisLockId>>
       ELSE /\ UNCHANGED redisLockId
            /\ RunMethod(t, alock)
    /\ UNCHANGED <<manager, source, disk, lockId, lockIdTimer, primaryLock, dmutex, wvars, log>>

\* the queued function is run when the holder is done
MutGranted(t) ==
    /\ tasks[t].pc = "mutQueued"
    /\ alock # <<>> /\ Head(alock) = t
    /\ IF LockRedisCond(FALSE)
       THEN /\ tasks' = SetTask(t, [tasks[t] EXCEPT !.pc = "mutRedisIO"])
            /\ UNCHANGED <<inMemory, bodies, relPending, redisLockId, alock>>
       ELSE /\ UNCHANGED redisLockId
            /\ RunMethod(t, Tail(alock))
    /\ UNCHANGED <<manager, source, disk, lockId, lockIdTimer, primaryLock, dmutex, wvars, log>>

\* lockTimeout: 5e3 ends the wait in the queue with an error
MutQueueTimeout(t) ==
    /\ Idle
    /\ tasks[t].pc = "mutQueued"
    /\ alock # <<>> /\ Head(alock) # t
    /\ alock' = SelectSeq(alock, LAMBDA x : x # t)
    /\ tasks' = SetTask(t, Return(tasks[t], Undef, TRUE))
    /\ UNCHANGED <<manager, source, inMemory, disk, lockId, lockIdTimer, primaryLock,
                   redisLockId, dmutex, relPending, bodies, wvars, log>>

\* redisLock.acquire answers: a token when the mutex is free (and another
\* host does not take it first), else null and the wrapper throws
MutRedisDone(t) ==
    /\ Idle
    /\ tasks[t].pc = "mutRedisIO"
    /\ relPending = 0
    /\ \/ /\ dmutex = 0
          /\ dmutex' = 1
          /\ redisLockId' = 1
          /\ RunMethod(t, Tail(alock))
       \/ /\ redisLockId' = 0
          /\ alock' = Tail(alock)
          /\ tasks' = SetTask(t, Return(tasks[t], Undef, TRUE))
          /\ UNCHANGED <<dmutex, inMemory, bodies, relPending>>
    /\ UNCHANGED <<manager, source, disk, lockId, lockIdTimer, primaryLock, wvars, log>>

\* redisLock.release answers
RedisReleaseDone ==
    /\ Idle
    /\ relPending > 0
    /\ relPending' = relPending - 1
    /\ dmutex' = 0
    /\ UNCHANGED <<manager, source, inMemory, disk, lockId, lockIdTimer, primaryLock,
                   redisLockId, alock, tasks, bodies, wvars, log>>

(***************************************************************************)
(* The body of a mutation on a file or a key.                              *)
(***************************************************************************)
\* `await getAllData()` answers: the operation is applied to the snapshot
\* and update(data), not awaited, starts to write it
BodyLoaded(b) ==
    /\ Idle
    /\ b \in bodies /\ b.stage = "load"
    /\ LET a == Apply(b.q, getAllData) IN
       bodies' = IF a.ok
                 THEN (bodies \ {b}) \cup {[b EXCEPT !.stage = "write", !.data = a.data]}
                 ELSE bodies \ {b}
    /\ UNCHANGED <<manager, source, inMemory, disk, lockId, lockIdTimer, primaryLock,
                   redisLockId, dmutex, relPending, alock, tasks, wvars, log>>

\* fs.writeFile / redisClient.set replaces the stored text
WriteLand(b) ==
    /\ Idle
    /\ b \in bodies /\ b.stage = "write"
    /\ disk' = update(b.data)
    /\ bodies' = bodies \ {b}
    /\ UNCHANGED <<manager, source, inMemory, lockId, lockIdTimer, primaryLock,
                   redisLockId, dmutex, relPending, alock, tasks, wvars, log>>


(***************************************************************************)
(* The gates' timers.                                                      *)
(***************************************************************************)
\* setTimeout into a handle variable: a timer still armed under the old handle
\* stays armed
Arm(timer) == [cur |-> TRUE, stale |-> timer.stale + (IF timer.cur THEN 1 ELSE 0)]
\* clearTimeout of the handle variable
Disarm(timer) == [timer EXCEPT !.cur = FALSE]

\* setLockId(timeout)
setLockId(id) ==
    /\ lockId' = id
    /\ lockIdTimer' = Arm(lockIdTimer)

\* clearLockId()
clearLockId ==
    /\ lockIdTimer' = Disarm(lockIdTimer)
    /\ lockId' = 0

\* setPrimaryLockId(timeout)
setPrimaryLockId ==
    primaryLock' = [locked |-> TRUE, timer |-> Arm(primaryLock.timer)]

\* clearPrimaryLockId()
clearPrimaryLockId(timer) ==
    primaryLock' = [locked |-> FALSE, timer |-> Disarm(timer)]

\* the timer of setLockId fires: the one in the handle, or an older one
LockExpire ==
    /\ Idle
    /\ log.fired < MaxFired
    /\ \/ /\ lockIdTimer.cur
          /\ clearLockId
       \/ /\ lockIdTimer.stale > 0
          /\ lockIdTimer' = [cur |-> FALSE, stale |-> lockIdTimer.stale - 1]
          /\ lockId' = 0
    /\ log' = [log EXCEPT !.holder = 0, !.expired = TRUE, !.fired = @ + 1]
    /\ UNCHANGED <<manager, source, inMemory, disk, primaryLock, redisLockId, dmutex,
                   relPending, alock, tasks, bodies, wvars>>

\* the timer of setPrimaryLockId fires
PrimaryExpire ==
    /\ Idle
    /\ log.fired < MaxFired
    /\ \/ /\ primaryLock.timer.cur
          /\ clearPrimaryLockId(primaryLock.timer)
       \/ /\ primaryLock.timer.stale > 0
          /\ clearPrimaryLockId([primaryLock.timer EXCEPT !.stale = @ - 1])
    /\ log' = [log EXCEPT !.fired = @ + 1]
    /\ UNCHANGED <<manager, source, inMemory, disk, lockId, lockIdTimer, redisLockId, dmutex,
                   relPending, alock, tasks, bodies, wvars>>

(***************************************************************************)
(* Calls on the authority's document object.                               *)
(***************************************************************************)
\* the user's program on the primary makes its next call
LStart(t) ==
    /\ tasks[t].kind = "local" /\ tasks[t].pc = "idle" /\ tasks[t].script # <<>>
    /\ LET c == Head(tasks[t].script)
           pc == CASE c.type = "pause" -> "paused"
                   [] c.type = "get" -> "get"
                   [] c.type = "txn" -> "txStart"
                   [] OTHER -> "mutAcq"
       IN tasks' = SetTask(t, [tasks[t] EXCEPT !.script = Tail(@), !.q = c,
                                               !.pc = pc, !.ret = "idle",
                                               !.err = FALSE])
    /\ UNCHANGED <<manager, source, inMemory, disk, lockId, lockIdTimer, primaryLock,
                   redisLockId, dmutex, relPending, alock, bodies, wvars, log>>

\* the user's program on the primary goes on after waiting for something else
LWake(t) ==
    /\ Idle
    /\ tasks[t].pc = "paused"
    /\ tasks' = SetTask(t, [tasks[t] EXCEPT !.pc = "idle"])
    /\ UNCHANGED <<manager, source, inMemory, disk, lockId, lockIdTimer, primaryLock,
                   redisLockId, dmutex, relPending, alock, bodies, wvars, log>>

\* rs(selector, await getAllData()): at once on the in-memory object
AGet(t) ==
    /\ tasks[t].pc = "get"
    /\ tasks' = SetTask(t,
          IF source = "inMemory"
          THEN [tasks[t] EXCEPT !.pc = tasks[t].ret,
                                !.s = rs(tasks[t].q.selector, getAllData),
                                !.res = rs(tasks[t].q.selector, getAllData)]
          ELSE [tasks[t] EXCEPT !.pc = "getIO"])
    /\ UNCHANGED <<manager, source, inMemory, disk, lockId, lockIdTimer, primaryLock,
                   redisLockId, dmutex, relPending, alock, bodies, wvars, log>>

\* the file or the key has been read
AGetDone(t) ==
    /\ Idle
    /\ tasks[t].pc = "getIO"
    /\ tasks' = SetTask(t, [tasks[t] EXCEPT !.pc = tasks[t].ret,
                                !.s = rs(tasks[t].q.selector, getAllData),
                                !.res = rs(tasks[t].q.selector, getAllData)])
    /\ UNCHANGED <<manager, source, inMemory, disk, lockId, lockIdTimer, primaryLock,
                   redisLockId, dmutex, relPending, alock, bodies, wvars, log>>

(***************************************************************************)
(* transaction(cb, timeout) on the authority.  The callback is the one of  *)
(* the counter scenario: s = await doc.get(selector);                      *)
(* await doc.set([], key, s + 1).                                          *)
(***************************************************************************)
\* if (lockId) await waitForLockIdRelease()
TxStart(t) ==
    /\ tasks[t].pc = "txStart"
    /\ tasks' = SetTask(t,
          IF lockId # 0
          THEN [tasks[t] EXCEPT !.pc = "txWaitL", !.tryCount = 1]
          ELSE [tasks[t] EXCEPT !.pc = "txRedis"])
    /\ UNCHANGED <<manager, source, inMemory, disk, lockId, lockIdTimer, primaryLock,
                   redisLockId, dmutex, relPending, alock, bodies, wvars, log>>

\* transaction() that goes on after its last attempt instead of failing
TxPollGoesOn(t) ==
    /\ Idle
    /\ tasks[t].pc = "txWaitL"
    /\ tasks' = SetTask(t,
          IF lockId = 0 THEN [tasks[t] EXCEPT !.pc = "txRedis"]
          ELSE IF tasks[t].tryCount < MaxTry
          THEN [tasks[t] EXCEPT !.tryCount = @ + 1]
          ELSE [tasks[t] EXCEPT !.pc = "txRedis"])
    /\ UNCHANGED <<manager, source, inMemory, disk, lockId, lockIdTimer, primaryLock,
                   redisLockId, dmutex, relPending, alock, bodies, wvars, log>>

\* one sleep of waitForLockIdRelease is over
TxPoll(t) ==
    /\ Idle
    /\ tasks[t].pc = "txWaitL"
    /\ tasks' = SetTask(t,
          IF lockId = 0 THEN [tasks[t] EXCEPT !.pc = "txRedis"]
          ELSE IF tasks[t].tryCount < MaxTry
          THEN [tasks[t] EXCEPT !.tryCount = @ + 1]
          ELSE [tasks[t] EXCEPT !.pc = "failed", !.err = TRUE])
    /\ UNCHANGED <<manager, source, inMemory, disk, lockId, lockIdTimer, primaryLock,
                   redisLockId, dmutex, relPending, alock, bodies, wvars, log>>

\* setPrimaryLockId(timeout); await cb(result): the callback calls get
TxBegin(t) ==
    /\ setPrimaryLockId
    /\ tasks' = SetTask(t, [tasks[t] EXCEPT
            !.pc = "get", !.ret = "cbSet",
            !.q = Query("get", tasks[t].q.selector, tasks[t].q.key, Undef,
                        tasks[t].q.cid)])

\* await lockRedis(true)
TxLockRedis(t) ==
    /\ tasks[t].pc = "txRedis"
    /\ IF LockRedisCond(TRUE)
       THEN /\ tasks' = SetTask(t, [tasks[t] EXCEPT !.pc = "txRedisIO"])
            /\ UNCHANGED primaryLock
       ELSE TxBegin(t)
    /\ UNCHANGED <<manager, source, inMemory, disk, lockId, lockIdTimer,
                   redisLockId, dmutex, relPending, alock, bodies, wvars, log>>

\* redisLock.acquire answers; what lockRedis(true) returns is not looked at
TxRedisDone(t) ==
    /\ Idle
    /\ tasks[t].pc = "txRedisIO"
    /\ relPending = 0
    /\ \/ /\ dmutex = 0
          /\ dmutex' = 1
          /\ redisLockId' = 1
       \/ /\ redisLockId' = 0
          /\ UNCHANGED dmutex
    /\ TxBegin(t)
    /\ UNCHANGED <<manager, source, inMemory, disk, lockId, lockIdTimer,
                   relPending, alock, bodies, wvars, log>>

\* the callback goes on with the value it read
CbSet(t) ==
    /\ tasks[t].pc = "cbSet"
    /\ tasks' = SetTask(t, [tasks[t] EXCEPT
            !.pc = "mutAcq", !.ret = "cbEnd",
            !.q = Query("set", <<>>, tasks[t].q.key, PlusOne(tasks[t].s),
                        tasks[t].q.cid)])
    /\ UNCHANGED <<manager, source, inMemory, disk, lockId, lockIdTimer, primaryLock,
                   redisLockId, dmutex, relPending, alock, bodies, wvars, log>>

\* finally { releaseRedis(true); clearPrimaryLockId() }; an error of the
\* callback is thrown on
TxEnd(t) ==
    /\ tasks[t].pc = "cbEnd"
    /\ relPending' = IF ReleaseRedisCond(TRUE, redisLockId)
                     THEN relPending + 1 ELSE relPending
    /\ clearPrimaryLockId(primaryLock.timer)
    /\ tasks' = SetTask(t, [tasks[t] EXCEPT
            !.pc = IF tasks[t].err THEN "failed" ELSE "idle",
            !.q = NoQuery, !.s = Undef, !.res = Undef])
    /\ UNCHANGED <<manager, source, inMemory, disk, lockId, lockIdTimer,
                   redisLockId, dmutex, alock, bodies, wvars, log>>


(***************************************************************************)
(* createWorkerListener: one task per request envelope received.           *)
(***************************************************************************)
Drop(t) == [x \in DOMAIN tasks \ {t} |-> tasks[x]]

\* a worker's envelope is received; without a listener nothing handles it
Deliver(w) ==
    /\ Idle
    /\ toPrimary[w] # <<>>
    /\ LET m == Head(toPrimary[w]) IN
       tasks' = IF w \in listening
                THEN [x \in DOMAIN tasks \cup {-m.rid} |->
                        IF x = -m.rid
                        THEN Task("handler", w, m.rid, m.qid, m.q, "gate1", <<>>)
                        ELSE tasks[x]]
                ELSE tasks
    /\ toPrimary' = [toPrimary EXCEPT ![w] = Tail(@)]
    /\ UNCHANGED <<manager, source, inMemory, disk, lockId, lockIdTimer, primaryLock,
                   redisLockId, dmutex, relPending, alock, bodies,
                   listening, toWorker, wLockId, wfib, pending, sent, log>>

Throw(task) == [task EXCEPT !.pc = "respond", !.err = TRUE, !.res = Undef]
Reply(task, result) == [task EXCEPT !.pc = "respond", !.err = FALSE, !.res = result]

\* if (primaryLock.locked) await waitForPrimaryLockIdRelease()
HGate1(t) ==
    /\ tasks[t].pc = "gate1"
    /\ tasks' = SetTask(t,
          IF primaryLock.locked
          THEN [tasks[t] EXCEPT !.pc = "waitP", !.tryCount = 1]
          ELSE [tasks[t] EXCEPT !.pc = "gate2"])
    /\ UNCHANGED <<manager, source, inMemory, disk, lockId, lockIdTimer, primaryLock,
                   redisLockId, dmutex, relPending, alock, bodies, wvars, log>>

\* one sleep of waitForPrimaryLockIdRelease is over
HPollP(t) ==
    /\ Idle
    /\ tasks[t].pc = "waitP"
    /\ tasks' = SetTask(t,
          IF ~primaryLock.locked THEN [tasks[t] EXCEPT !.pc = "gate2"]
          ELSE IF tasks[t].tryCount < MaxTry
          THEN [tasks[t] EXCEPT !.tryCount = @ + 1]
          ELSE Throw(tasks[t]))
    /\ UNCHANGED <<manager, source, inMemory, disk, lockId, lockIdTimer, primaryLock,
                   redisLockId, dmutex, relPending, alock, bodies, wvars, log>>

\* if (lockId && msg.query?.lockId != lockId) await waitForLockIdRelease()
HGate2(t) ==
    /\ tasks[t].pc = "gate2"
    /\ tasks' = SetTask(t,
          IF lockId # 0 /\ tasks[t].q.lockId # lockId
          THEN [tasks[t] EXCEPT !.pc = "waitL", !.tryCount = 1]
          ELSE [tasks[t] EXCEPT !.pc = "dispatch"])
    /\ UNCHANGED <<manager, source, inMemory, disk, lockId, lockIdTimer, primaryLock,
                   redisLockId, dmutex, relPending, alock, bodies, wvars, log>>

\* one sleep of waitForLockIdRelease is over
HPollL(t) ==
    /\ Idle
    /\ tasks[t].pc = "waitL"
    /\ tasks' = SetTask(t,
          IF lockId = 0 THEN [tasks[t] EXCEPT !.pc = "dispatch"]
          ELSE IF tasks[t].tryCount < MaxTry
          THEN [tasks[t] EXCEPT !.tryCount = @ + 1]
          ELSE Throw(tasks[t]))
    /\ UNCHANGED <<manager, source, inMemory, disk, lockId, lockIdTimer, primaryLock,
                   redisLockId, dmutex, relPending, alock, bodies, wvars, log>>

\* msg.query.type == "lock".  Math.floor(Math.random() * 10e10) can be 0, and
\* every test of lockId takes a token of 0 for no token.
HLock(t) ==
    /\ tasks[t].pc = "dispatch" /\ tasks[t].q.type = "lock"
    /\ IF lockId # 0 /\ tasks[t].q.lockId = lockId
       THEN /\ tasks' = SetTask(t, Throw(tasks[t]))
            /\ UNCHANGED <<lockId, lockIdTimer, log>>
       ELSE \E id \in Draw(generateQueryId, Tokens) \cup {0} :
            /\ setLockId(id)
            /\ tasks' = SetTask(t, Reply(tasks[t], Num(id)))
            /\ log' = [log EXCEPT !.holder = tasks[t].w]
    /\ UNCHANGED <<manager, source, inMemory, disk, primaryLock,
                   redisLockId, dmutex, relPending, alock, bodies, wvars>>

\* a faulty listener: every release is acknowledged
HReleaseAlwaysAck(t) ==
    /\ tasks[t].pc = "dispatch" /\ tasks[t].q.type = "release"
    /\ clearLockId
    /\ tasks' = SetTask(t, Reply(tasks[t], True))
    /\ log' = [log EXCEPT !.holder = 0]
    /\ UNCHANGED <<manager, source, inMemory, disk, primaryLock,
                   redisLockId, dmutex, relPending, alock, bodies, wvars>>

\* msg.query.type == "release"
HRelease(t) ==
    /\ tasks[t].pc = "dispatch" /\ tasks[t].q.type = "release"
    /\ IF lockId = 0 \/ tasks[t].q.lockId # lockId
       THEN /\ tasks' = SetTask(t, Throw(tasks[t]))
            /\ UNCHANGED <<lockId, lockIdTimer, log>>
       ELSE /\ clearLockId
            /\ tasks' = SetTask(t, Reply(tasks[t], True))
            /\ log' = [log EXCEPT !.holder = 0]
    /\ UNCHANGED <<manager, source, inMemory, disk, primaryLock,
                   redisLockId, dmutex, relPending, alock, bodies, wvars>>

\* msg.query.type == "get"
HGet(t) ==
    /\ tasks[t].pc = "dispatch" /\ tasks[t].q.type = "get"
    /\ tasks' = SetTask(t, [tasks[t] EXCEPT !.pc = "get", !.ret = "respond"])
    /\ UNCHANGED <<manager, source, inMemory, disk, lockId, lockIdTimer, primaryLock,
                   redisLockId, dmutex, relPending, alock, bodies, wvars, log>>

\* result = await setDirect(...) / pushDirect(...) / ...
HMut(t) ==
    /\ tasks[t].pc = "dispatch" /\ tasks[t].q.type \in MutationTypes
    /\ tasks' = SetTask(t, [tasks[t] EXCEPT !.pc = "mutAcq", !.ret = "respond"])
    /\ UNCHANGED <<manager, source, inMemory, disk, lockId, lockIdTimer, primaryLock,
                   redisLockId, dmutex, relPending, alock, bodies, wvars, log>>

\* a type the listener has no branch for: result stays undefined
HOther(t) ==
    /\ tasks[t].pc = "dispatch"
    /\ tasks[t].q.type \notin MutationTypes \cup {"lock", "release", "get"}
    /\ tasks' = SetTask(t, Reply(tasks[t], Undef))
    /\ UNCHANGED <<manager, source, inMemory, disk, lockId, lockIdTimer, primaryLock,
                   redisLockId, dmutex, relPending, alock, bodies, wvars, log>>

\* worker.send({queryId, finished: true, result}) or, from the catch,
\* worker.send({queryId, finished: true, error})
HRespond(t) ==
    /\ tasks[t].pc = "respond"
    /\ toWorker' = [toWorker EXCEPT ![tasks[t].w] =
            Append(@, [rid |-> tasks[t].rid, queryId |-> tasks[t].qid,
                       result |-> ToJSON(tasks[t].res), error |-> tasks[t].err])]
    /\ sent' = [sent EXCEPT ![tasks[t].rid] = @ + 1]
    /\ tasks' = Drop(t)
    /\ UNCHANGED <<manager, source, inMemory, disk, lockId, lockIdTimer, primaryLock,
                   redisLockId, dmutex, relPending, alock, bodies,
                   listening, toPrimary, wLockId, wfib, pending, log>>

(***************************************************************************)
(* The worker's proxy.                                                     *)
(***************************************************************************)
WFib(home, script) ==
    [home |-> home, script |-> script, pc |-> "idle", stage |-> "plain",
     call |-> NoQuery, s |-> Undef, res |-> Undef, err |-> FALSE, n |-> 0]

\* the name of the k-th request envelope of caller f
Rid(f, k) == 100 * f + k

\* sendQuery(query): generateQueryId, process.send, waitForQueryNumber
sendQuery(f, q, stage, fib, lid) ==
    \E queryId \in Draw(generateQueryId, QueryIdsOf(fib.home)) :
        LET rid == Rid(f, fib.n + 1) IN
        /\ toPrimary' = [toPrimary EXCEPT ![fib.home] =
                Append(@, [rid |-> rid, w |-> fib.home, qid |-> queryId,
                           q |-> [q EXCEPT !.lockId = lid]])]
        /\ pending' = pending \cup {[f |-> f, queryId |-> queryId, rid |-> rid]}
        /\ sent' = [r \in DOMAIN sent \cup {rid} |->
                        IF r = rid THEN 0 ELSE sent[r]]
        /\ wfib' = [wfib EXCEPT ![f] = [fib EXCEPT !.pc = "wait", !.stage = stage,
                                                   !.res = Undef, !.n = @ + 1]]

\* the query object the proxy's method builds for a call: the values as the
\* channel carries them, and updateJsonFromProvided under the type "data"
ProxyQuery(c) ==
    [c EXCEPT !.type = IF @ = "updateJsonFromProvided" THEN "data" ELSE @,
              !.value = ToJSON(@)]

\* the user's program on a worker makes its next call; transaction() starts
\* with lock()
WStart(f) ==
    /\ NoReady
    /\ wfib[f].pc = "idle" /\ wfib[f].script # <<>>
    /\ LET c == Head(wfib[f].script)
           fib == [wfib[f] EXCEPT !.script = Tail(@), !.call = c, !.err = FALSE]
       IN IF c.type = "txn"
          THEN sendQuery(f, Query("lock", <<>>, "", Undef, c.cid), "txLock", fib,
                         wLockId[fib.home])
          ELSE sendQuery(f, ProxyQuery(c), "plain", fib, wLockId[fib.home])
    /\ UNCHANGED <<avars, listening, toWorker, wLockId, log>>

\* a message of the primary is received: every handler registered for its
\* queryId settles its call and is removed
WRecv(w) ==
    /\ Idle
    /\ toWorker[w] # <<>>
    /\ LET m == Head(toWorker[w])
           hit == {h \in pending : wfib[h.f].home = w /\ h.queryId = m.queryId}
           fs == {h.f : h \in hit}
       IN /\ pending' = pending \ hit
          /\ wfib' = [f \in DOMAIN wfib |->
                        IF f \in fs
                        THEN [wfib[f] EXCEPT !.pc = "resumed", !.res = m.result,
                                             !.err = m.error]
                        ELSE wfib[f]]
          /\ log' = [log EXCEPT
                !.crossed = @ \cup {<<h.rid, m.rid>> : h \in {x \in hit : x.rid # m.rid}},
                !.rejected = @ \/ (m.error /\ hit # {})]
    /\ toWorker' = [toWorker EXCEPT ![w] = Tail(@)]
    /\ UNCHANGED <<avars, listening, toPrimary, wLockId, sent>>

\* the 5e3 timer of waitForQueryNumber fires: reject("Timeout")
WTimeout(f) ==
    /\ Idle
    /\ log.fired < MaxFired
    /\ \E h \in pending :
        /\ h.f = f
        /\ pending' = pending \ {h}
    /\ wfib' = [wfib EXCEPT ![f] = [@ EXCEPT !.pc = "resumed", !.res = Undef,
                                             !.err = TRUE]]
    /\ log' = [log EXCEPT !.rejected = TRUE, !.fired = @ + 1]
    /\ UNCHANGED <<avars, listening, toPrimary, toWorker, wLockId, sent>>

Token(res) == IF res.t = "num" THEN res.v ELSE 0

\* transaction() has returned or thrown: its locals are gone
TxnOver(fib) ==
    [fib EXCEPT !.pc = IF fib.err THEN "failed" ELSE "idle", !.stage = "plain",
                !.call = NoQuery, !.s = Undef, !.res = Undef]

\* a faulty proxy: an error of the callback ends transaction() at once, without
\* a release
WStepNoRelease(f) ==
    /\ NoReady
    /\ wfib[f].pc = "resumed"
    /\ LET fib == wfib[f]
           c == fib.call
           w == fib.home
       IN CASE fib.stage = "plain" ->
                /\ wfib' = [wfib EXCEPT ![f] =
                        [fib EXCEPT !.pc = IF fib.err THEN "failed" ELSE "idle",
                                    !.s = fib.res]]
                /\ UNCHANGED <<toPrimary, pending, sent, wLockId>>
            [] fib.stage = "txLock" ->
                \* lockId = await sendQuery(query); then await cb(result)
                IF fib.err
                THEN /\ wfib' = [wfib EXCEPT ![f] = TxnOver(fib)]
                     /\ UNCHANGED <<toPrimary, pending, sent, wLockId>>
                ELSE /\ wLockId' = [wLockId EXCEPT ![w] = Token(fib.res)]
                     /\ sendQuery(f, Query("get", c.selector, c.key, Undef, c.cid),
                                  "txGet", fib, Token(fib.res))
            [] fib.stage = "txGet" ->
                \* a rejected call ends the callback; finally { await release() }
                /\ IF fib.err
                   THEN /\ wfib' = [wfib EXCEPT ![f] = TxnOver(fib)]
                        /\ UNCHANGED <<toPrimary, pending, sent>>
                   ELSE sendQuery(f, Query("set", <<>>, c.key, PlusOne(fib.res), c.cid),
                                  "txSet", [fib EXCEPT !.s = fib.res], wLockId[w])
                /\ UNCHANGED wLockId
            [] fib.stage = "txSet" ->
                /\ sendQuery(f, Query("release", <<>>, "", Undef, c.cid),
                             "txRelease", fib, wLockId[w])
                /\ UNCHANGED wLockId
            [] fib.stage = "txRelease" ->
                /\ wfib' = [wfib EXCEPT ![f] = TxnOver(fib)]
                /\ UNCHANGED <<toPrimary, pending, sent, wLockId>>
    /\ UNCHANGED <<avars, listening, toWorker, log>>

\* the caller of a settled call goes on
WStep(f) ==
    /\ NoReady
    /\ wfib[f].pc = "resumed"
    /\ LET fib == wfib[f]
           c == fib.call
           w == fib.home
       IN CASE fib.stage = "plain" ->
                /\ wfib' = [wfib EXCEPT ![f] =
                        [fib EXCEPT !.pc = IF fib.err THEN "failed" ELSE "idle",
                                    !.s = fib.res]]
                /\ UNCHANGED <<toPrimary, pending, sent, wLockId>>
            [] fib.stage = "txLock" ->
                \* lockId = await sendQuery(query); then await cb(result)
                IF fib.err
                THEN /\ wfib' = [wfib EXCEPT ![f] = TxnOver(fib)]
                     /\ UNCHANGED <<toPrimary, pending, sent, wLockId>>
                ELSE /\ wLockId' = [wLockId EXCEPT ![w] = Token(fib.res)]
                     /\ sendQuery(f, Query("get", c.selector, c.key, Undef, c.cid),
                                  "txGet", fib, Token(fib.res))
            [] fib.stage = "txGet" ->
                \* a rejected call ends the callback; finally { await release() }
                /\ IF fib.err
                   THEN sendQuery(f, Query("release", <<>>, "", Undef, c.cid),
                                  "txRelease", fib, wLockId[w])
                   ELSE sendQuery(f, Query("set", <<>>, c.key, PlusOne(fib.res), c.cid),
                                  "txSet", [fib EXCEPT !.s = fib.res], wLockId[w])
                /\ UNCHANGED wLockId
            [] fib.stage = "txSet" ->
                /\ sendQuery(f, Query("release", <<>>, "", Undef, c.cid),
                             "txRelease", fib, wLockId[w])
                /\ UNCHANGED wLockId
            [] fib.stage = "txRelease" ->
                /\ wfib' = [wfib EXCEPT ![f] = TxnOver(fib)]
                /\ UNCHANGED <<toPrimary, pending, sent, wLockId>>
    /\ UNCHANGED <<avars, listening, toWorker, log>>


(***************************************************************************)
(* Programs of the users of the document, and the initial states.          *)
(***************************************************************************)
\* doc.push(["items"], v), each call with a value of its own
PushCall(cid) == Query("push", <<"items">>, "", Num(cid), cid)
\* doc.transaction(async (doc) => { const s = await doc.get(["counter"]);
\*                                  await doc.set([], "counter", s + 1) })
TxnCall(cid) == Query("txn", <<"counter">>, "counter", Undef, cid)
GetCall(cid) == Query("get", <<"counter">>, "", Undef, cid)
\* doc.set([], "flag", v)
SetCall(cid) == Query("set", <<>>, "flag", Num(cid), cid)
PauseCall == Query("pause", <<>>, "", Undef, 0)

\* log: holder, the worker the current token was sent to; crossed, the
\* calls settled by the response to another request; expired, a token was
\* cleared by its timer; rejected, a call of a proxy was rejected; fired, the
\* timers of 5e3 that have fired; op, the call the properties of one call
\* speak about
InitLog == [holder |-> 0, crossed |-> {}, expired |-> FALSE, rejected |-> FALSE,
            fired |-> 0, op |-> NoQuery]

\* the state after makeDynamicJson({source, initialContent}) on the primary
\* and on every worker, the user's programs not yet started
InitState(src, initialContent, locals, remotes, listen, observed) ==
    /\ manager = [client |-> (src = "redis"), initialContent |-> initialContent,
                  made |-> "yes"]
    /\ source = src
    /\ inMemory = initialContent
    /\ disk = IF src = "inMemory" THEN NoFile ELSE Stringify(initialContent)
    /\ lockId = 0
    /\ lockIdTimer = [cur |-> FALSE, stale |-> 0]
    /\ primaryLock = [locked |-> FALSE, timer |-> [cur |-> FALSE, stale |-> 0]]
    /\ redisLockId = 0
    /\ dmutex = 0
    /\ relPending = 0
    /\ alock = <<>>
    /\ tasks = locals
    /\ bodies = {}
    /\ listening = listen
    /\ toPrimary = [w \in Workers |-> <<>>]
    /\ toWorker = [w \in Workers |-> <<>>]
    /\ wLockId = [w \in Workers |-> 0]
    /\ wfib = remotes
    /\ pending = {}
    /\ sent = <<>>
    /\ log = observed

InitWith(src, initialContent, locals, remotes, listen) ==
    InitState(src, initialContent, locals, remotes, listen, InitLog)

\* every program has ended and nothing is in flight
Quiet ==
    /\ \A t \in DOMAIN tasks :
        /\ tasks[t].kind = "local"
        /\ tasks[t].pc = "failed" \/ (tasks[t].pc = "idle" /\ tasks[t].script = <<>>)
    /\ \A f \in DOMAIN wfib :
        wfib[f].pc = "failed" \/ (wfib[f].pc = "idle" /\ wfib[f].script = <<>>)
    /\ bodies = {}
    /\ \A w \in Workers : toPrimary[w] = <<>> /\ toWorker[w] = <<>>

\* the document a get of the root would read
Document == getAllData

(***************************************************************************)
(* Concurrent pushes: two callers on the primary and one on each of two    *)
(* workers push one value each onto items.                                 *)
(***************************************************************************)
PushContent == Obj([counter |-> Num(0), items |-> Arr(<<>>)])
PushLocals == 1..2
PushRemotes == 3..4

InitMut ==
    \E src \in Sources :
        InitWith(src, PushContent,
                 [f \in PushLocals |-> LocalTask(<<PushCall(f)>>)],
                 [f \in PushRemotes |-> WFib(f - 2, <<PushCall(f)>>)],
                 Workers)

NextMut ==
    \/ \E t \in DOMAIN tasks : LStart(t)
    \/ \E t \in DOMAIN tasks : MutAcquire(t)
    \/ \E t \in DOMAIN tasks : MutGranted(t)
    \/ \E t \in DOMAIN tasks : MutQueueTimeout(t)
    \/ \E t \in DOMAIN tasks : MutRedisDone(t)
    \/ RedisReleaseDone
    \/ \E b \in bodies : BodyLoaded(b)
    \/ \E b \in bodies : WriteLand(b)
    \/ \E w \in Workers : Deliver(w)
    \/ \E t \in DOMAIN tasks : HGate1(t)
    \/ \E t \in DOMAIN tasks : HGate2(t)
    \/ \E t \in DOMAIN tasks : HMut(t)
    \/ \E t \in DOMAIN tasks : HRespond(t)
    \/ \E f \in DOMAIN wfib : WStart(f)
    \/ \E w \in Workers : WRecv(w)
    \/ \E f \in DOMAIN wfib : WTimeout(f)
    \/ \E f \in DOMAIN wfib : WStep(f)

SpecMut == InitMut /\ [][NextMut]_vars


(***************************************************************************)
(* Properties of the concurrent pushes.                                    *)
(***************************************************************************)
\* a body that has loaded its snapshot and whose write has not completed
InWindow(b) == b.stage = "write"

\* C1: the load-snapshot -> apply -> persist windows of two mutations of the
\* document never interleave: no mutation loads its snapshot while another
\* one has loaded its own and not yet persisted it.
C1_WindowsNeverInterleave ==
    Cardinality({b \in bodies : InWindow(b)}) <= 1

\* the values pushed by the programs
Pushed == {Num(f) : f \in PushLocals \cup PushRemotes}

\* C2: once the N concurrent pushes have completed, the sequence has grown
\* by exactly N elements and holds each pushed value exactly once, whatever
\* the source kind.
C2_EveryPushKept ==
    Quiet =>
        LET items == rs(<<"items">>, Document) IN
        /\ IsArray(items)
        /\ Len(items.v) = Cardinality(Pushed)
        /\ \A v \in Pushed : \E i \in 1..Len(items.v) : items.v[i] = v


(***************************************************************************)
(* The counter scenario of test.ts: the primary runs TX_PRIMARY            *)
(* transactions one after the other, each worker runs TX_PER_WORKER.       *)
(***************************************************************************)
CounterContent == Obj([counter |-> Num(0)])

InitTest ==
    InitWith("inMemory", CounterContent,
             [f \in {1} |-> LocalTask([i \in 1..TX_PRIMARY |-> TxnCall(i)])],
             [w \in Workers |->
                WFib(w, [i \in 1..TX_PER_WORKER |-> TxnCall(10 * w + i)])],
             Workers)

NextTest ==
    \/ \E t \in DOMAIN tasks : LStart(t)
    \/ \E t \in DOMAIN tasks : TxStart(t)
    \/ \E t \in DOMAIN tasks : TxLockRedis(t)
    \/ \E t \in DOMAIN tasks : AGet(t)
    \/ \E t \in DOMAIN tasks : CbSet(t)
    \/ \E t \in DOMAIN tasks : MutAcquire(t)
    \/ \E t \in DOMAIN tasks : TxEnd(t)
    \/ LockExpire
    \/ \E w \in Workers : Deliver(w)
    \/ \E t \in DOMAIN tasks : HGate1(t)
    \/ \E t \in DOMAIN tasks : HGate2(t)
    \/ \E t \in DOMAIN tasks : HPollL(t)
    \/ \E t \in DOMAIN tasks : HLock(t)
    \/ \E t \in DOMAIN tasks : HRelease(t)
    \/ \E t \in DOMAIN tasks : HGet(t)
    \/ \E t \in DOMAIN tasks : HMut(t)
    \/ \E t \in DOMAIN tasks : HRespond(t)
    \/ \E f \in DOMAIN wfib : WStart(f)
    \/ \E w \in Workers : WRecv(w)
    \/ \E f \in DOMAIN wfib : WTimeout(f)
    \/ \E f \in DOMAIN wfib : WStep(f)

SpecTest == InitTest /\ [][NextTest]_vars


(***************************************************************************)
(* Properties of the counter scenario.                                     *)
(***************************************************************************)
Counter == rs(<<"counter">>, Document)
Increments == TX_PRIMARY + NUM_WORKERS * TX_PER_WORKER

TxnLocals == 1..2

InitTxn ==
    \E src \in Sources :
        InitWith(src, CounterContent,
                 [f \in TxnLocals |-> LocalTask(<<TxnCall(f)>>)],
                 [w \in {1} |-> WFib(w, <<GetCall(10 * w)>>)],
                 Workers)

NextTxn ==
    \/ \E t \in DOMAIN tasks : LStart(t)
    \/ \E t \in DOMAIN tasks : TxStart(t)
    \/ \E t \in DOMAIN tasks : TxLockRedis(t)
    \/ \E t \in DOMAIN tasks : TxRedisDone(t)
    \/ \E t \in DOMAIN tasks : AGet(t)
    \/ \E t \in DOMAIN tasks : AGetDone(t)
    \/ \E t \in DOMAIN tasks : CbSet(t)
    \/ \E t \in DOMAIN tasks : MutAcquire(t)
    \/ \E t \in DOMAIN tasks : MutGranted(t)
    \/ \E t \in DOMAIN tasks : MutQueueTimeout(t)
    \/ \E t \in DOMAIN tasks : MutRedisDone(t)
    \/ RedisReleaseDone
    \/ \E b \in bodies : BodyLoaded(b)
    \/ \E b \in bodies : WriteLand(b)
    \/ \E t \in DOMAIN tasks : TxEnd(t)
    \/ PrimaryExpire
    \/ \E w \in Workers : Deliver(w)
    \/ \E t \in DOMAIN tasks : HGate1(t)
    \/ \E t \in DOMAIN tasks : HPollP(t)
    \/ \E t \in DOMAIN tasks : HGate2(t)
    \/ \E t \in DOMAIN tasks : HGet(t)
    \/ \E t \in DOMAIN tasks : HRespond(t)
    \/ \E f \in DOMAIN wfib : WStart(f)
    \/ \E w \in Workers : WRecv(w)
    \/ \E f \in DOMAIN wfib : WTimeout(f)
    \/ \E f \in DOMAIN wfib : WStep(f)

SpecTxn == InitTxn /\ [][NextTxn]_vars

(***************************************************************************)
(* Properties of the transactions on the authority.                        *)
(***************************************************************************)
\* the pcs of a caller on the primary between `await cb(result)` and the
\* finally of transaction()
CallbackPcs == {"get", "getIO", "cbSet", "mutAcq", "mutQueued", "mutRedisIO", "cbEnd"}

InCallback(t) ==
    /\ tasks[t].kind = "local"
    /\ tasks[t].pc \in CallbackPcs
    /\ tasks[t].pc \in {"cbSet", "cbEnd"} \/ tasks[t].ret \in {"cbSet", "cbEnd"}

\* C4: the callbacks of two transaction() calls started concurrently on the
\* authority never overlap: at most one caller on the primary is between the
\* start and the end of its callback.
C4_CallbacksNeverOverlap ==
    Cardinality({t \in DOMAIN tasks : InCallback(t)}) <= 1

(***************************************************************************)
(* Tokens: worker 1 runs a transaction and then reads the counter; the     *)
(* other workers set a flag and then run a transaction.                    *)
(***************************************************************************)
GateSources == {"inMemory", "jsonFile"}

GatePrograms ==
    [w \in Workers |->
        IF w = 1 THEN <<TxnCall(10), GetCall(11)>>
        ELSE <<SetCall(10 * w), TxnCall(10 * w + 1)>>]

InitGate ==
    \E src \in GateSources :
        InitWith(src, CounterContent, <<>>,
                 [w \in Workers |-> WFib(w, GatePrograms[w])], Workers)

NextGate ==
    \/ \E t \in DOMAIN tasks : AGet(t)
    \/ \E t \in DOMAIN tasks : AGetDone(t)
    \/ \E t \in DOMAIN tasks : MutAcquire(t)
    \/ \E b \in bodies : BodyLoaded(b)
    \/ \E b \in bodies : WriteLand(b)
    \/ LockExpire
    \/ \E w \in Workers : Deliver(w)
    \/ \E t \in DOMAIN tasks : HGate1(t)
    \/ \E t \in DOMAIN tasks : HGate2(t)
    \/ \E t \in DOMAIN tasks : HPollL(t)
    \/ \E t \in DOMAIN tasks : HLock(t)
    \/ \E t \in DOMAIN tasks : HRelease(t)
    \/ \E t \in DOMAIN tasks : HGet(t)
    \/ \E t \in DOMAIN tasks : HMut(t)
    \/ \E t \in DOMAIN tasks : HRespond(t)
    \/ \E f \in DOMAIN wfib : WStart(f)
    \/ \E w \in Workers : WRecv(w)
    \/ \E f \in DOMAIN wfib : WTimeout(f)
    \/ \E f \in DOMAIN wfib : WStep(f)

SpecGate == InitGate /\ [][NextGate]_vars

(***************************************************************************)
(* Properties of the tokens.                                               *)
(***************************************************************************)
\* the callback of caller f's transaction() starts: lock() has returned
CallbackBegins(f) == wfib[f].stage = "txLock" /\ wfib'[f].stage = "txGet"

\* C5: when a token has been granted to worker A, the callback of worker
\* B's transaction() does not begin until A's token has been cleared at the
\* authority (by A's release or by the expiry timer): whenever a callback
\* begins, no other worker's token is outstanding.
C5_CallbackAfterTokenCleared ==
    [][\A f \in DOMAIN wfib :
          CallbackBegins(f) => log.holder \in {0, wfib[f].home}]_vars

\* the listener invocation t clears the token in response to a release
ReleaseClears(t) ==
    /\ tasks[t].pc = "dispatch" /\ tasks[t].q.type = "release"
    /\ lockId # 0 /\ tasks[t].q.lockId = lockId
    /\ lockId' = 0

\* C6: every set awaited inside a worker's transaction() callback has been
\* applied to the document before the authority clears that worker's token
\* in response to its release: when the release of a transaction clears the
\* token and no timer has fired, no body of a mutation of that transaction
\* is still to load or to write.
C6_SetAppliedBeforeRelease ==
    [][\A t \in DOMAIN tasks :
          (ReleaseClears(t) /\ log.fired = 0) =>
              \A b \in bodies : b.w # tasks[t].w \/ b.cid # tasks[t].q.cid]_vars

\* the tokens minted and neither released nor expired: each has its expiry
\* timer armed
Outstanding == (IF lockIdTimer.cur THEN 1 ELSE 0) + lockIdTimer.stale

\* C7: at most one token is outstanding: the authority never mints a token
\* while a token minted before has been neither released nor expired, and
\* the token in lockId is the outstanding one.
C7_AtMostOneToken ==
    /\ Outstanding <= 1
    /\ (lockId # 0) = (Outstanding = 1)

\* the pcs at which a listener invocation executes a get or a mutation
ExecPcs == {"dispatch", "get", "getIO", "mutAcq", "mutQueued", "mutRedisIO"}

\* C8: while a token is outstanding the authority executes no get and no
\* mutation of a worker whose request does not carry that token.
C8_NoForeignRequestRuns ==
    lockId # 0 =>
        /\ \A t \in DOMAIN tasks :
              (/\ tasks[t].kind = "handler"
               /\ tasks[t].q.type \in MutationTypes \cup {"get"}
               /\ tasks[t].pc \in ExecPcs) => tasks[t].q.lockId = lockId
        /\ \A b \in bodies : b.w # 0 => b.q.lockId = lockId

(***************************************************************************)
(* Workers forked before and after makeDynamicJson on the primary: only    *)
(* the ones forked after it have a listener.  The programs are those of    *)
(* the tokens.                                                             *)
(***************************************************************************)
InitFork ==
    \E forkedAfter \in SUBSET Workers :
        InitWith("inMemory", CounterContent, <<>>,
                 [w \in Workers |-> WFib(w, GatePrograms[w])], forkedAfter)

NextFork ==
    \/ \E t \in DOMAIN tasks : AGet(t)
    \/ \E t \in DOMAIN tasks : MutAcquire(t)
    \/ LockExpire
    \/ \E w \in Workers : Deliver(w)
    \/ \E t \in DOMAIN tasks : HGate1(t)
    \/ \E t \in DOMAIN tasks : HGate2(t)
    \/ \E t \in DOMAIN tasks : HPollL(t)
    \/ \E t \in DOMAIN tasks : HLock(t)
    \/ \E t \in DOMAIN tasks : HRelease(t)
    \/ \E t \in DOMAIN tasks : HGet(t)
    \/ \E t \in DOMAIN tasks : HMut(t)
    \/ \E t \in DOMAIN tasks : HRespond(t)
    \/ \E f \in DOMAIN wfib : WStart(f)
    \/ \E w \in Workers : WRecv(w)
    \/ \E f \in DOMAIN wfib : WTimeout(f)
    \/ \E f \in DOMAIN wfib : WStep(f)

SpecFork == InitFork /\ [][NextFork]_vars

\* the authority has nothing left to handle: no request is on its way to it
\* and no listener invocation is running
AuthorityDone ==
    /\ \A w \in Workers : toPrimary[w] = <<>>
    /\ \A t \in DOMAIN tasks : tasks[t].kind # "handler"

\* C9: for every request envelope a worker sends the authority sends exactly
\* one response envelope with its correlation id: never two, and not zero
\* once the authority has nothing left to handle.
C9_ExactlyOneResponse ==
    /\ \A r \in DOMAIN sent : sent[r] <= 1
    /\ AuthorityDone => \A r \in DOMAIN sent : sent[r] = 1

(***************************************************************************)
(* Calls pending together in one process: two callers on worker 1 and one  *)
(* caller on every other worker.                                           *)
(***************************************************************************)
IdCallers == 1..(NUM_WORKERS + 1)

InitIds ==
    InitWith("inMemory", CounterContent, <<>>,
             [f \in IdCallers |->
                IF f = 1 THEN WFib(1, <<GetCall(1), GetCall(2)>>)
                ELSE WFib(f - 1, <<SetCall(10 * f), GetCall(10 * f + 1)>>)],
             Workers)

NextIds ==
    \/ \E t \in DOMAIN tasks : AGet(t)
    \/ \E t \in DOMAIN tasks : MutAcquire(t)
    \/ \E w \in Workers : Deliver(w)
    \/ \E t \in DOMAIN tasks : HGate1(t)
    \/ \E t \in DOMAIN tasks : HGate2(t)
    \/ \E t \in DOMAIN tasks : HGet(t)
    \/ \E t \in DOMAIN tasks : HMut(t)
    \/ \E t \in DOMAIN tasks : HRespond(t)
    \/ \E f \in DOMAIN wfib : WStart(f)
    \/ \E w \in Workers : WRecv(w)
    \/ \E f \in DOMAIN wfib : WTimeout(f)
    \/ \E f \in DOMAIN wfib : WStep(f)

SpecIds == InitIds /\ [][NextIds]_vars

\* C10: a pending call of a proxy is settled only by the response to its own
\* request: the calls pending together in one process have distinct
\* correlation ids, and no call has been settled by the response to another
\* request.
C10_PairingCorrect ==
    /\ \A g, h \in pending :
          (g # h /\ wfib[g.f].home = wfib[h.f].home) => g.queryId # h.queryId
    /\ log.crossed = {}

(***************************************************************************)
(* Settling of the proxy's calls.                                          *)
(***************************************************************************)
\* the calls of proxies not yet settled
Unsettled == {f \in DOMAIN wfib : wfib[f].pc = "wait"}

\* the registered handlers are those of the unsettled calls, one each
HandlersMatchCalls ==
    /\ Cardinality(pending) = Cardinality(Unsettled)
    /\ \A h \in pending : h.f \in Unsettled /\ h.rid = Rid(h.f, wfib[h.f].n)

\* the message worker w receives in this step answers a call whose handler
\* has been removed
LateResponse(w) ==
    /\ toWorker[w] # <<>>
    /\ toWorker'[w] = Tail(toWorker[w])
    /\ \A h \in pending : h.rid # Head(toWorker[w]).rid

\* C11: the registered handlers are exactly those of the calls not yet
\* settled (a settled call has lost its handler and its timer, so it is
\* settled once), and a response that arrives after the timeout of its call
\* settles nothing.
C11_SettledOnceAndCleaned ==
    /\ []HandlersMatchCalls
    /\ [][\A w \in Workers : LateResponse(w) => pending' = pending]_vars

(***************************************************************************)
(* makeDynamicJson({source, initialContent}) on the primary, then the      *)
(* workers are forked and the programs start.                              *)
(***************************************************************************)
\* the guard that is never taken: no check of the client at all
ConfigErrorNever == FALSE

\* source.type == "redis" && (!redisClient || !redisLock)
ConfigError == source = "redis" /\ ~manager.client

MakeLocals == [f \in {1} |-> LocalTask(<<SetCall(1), GetCall(2)>>)]
MakeRemotes == [w \in Workers |-> WFib(w, <<GetCall(10 * w)>>)]

\* the document object is returned: the listeners are registered for the
\* workers forked from now on, and the programs start
MakeReturn ==
    /\ manager' = [manager EXCEPT !.made = "yes"]
    /\ tasks' = MakeLocals
    /\ listening' = Workers
    /\ wfib' = MakeRemotes

\* the call: the configuration check, then let inMemory = initialContent || {}
MakeStart ==
    /\ manager.made = "no"
    /\ IF ConfigError
       THEN /\ manager' = [manager EXCEPT !.made = "error"]
            /\ UNCHANGED <<inMemory, tasks, listening, wfib>>
       ELSE /\ inMemory' = IF manager.initialContent = Undef THEN Obj(<<>>)
                           ELSE manager.initialContent
            /\ IF source = "inMemory" \/ manager.initialContent = Undef
               THEN MakeReturn
               ELSE /\ manager' = [manager EXCEPT !.made = "init"]
                    /\ UNCHANGED <<tasks, listening, wfib>>
    /\ UNCHANGED <<source, disk, lockId, lockIdTimer, primaryLock, redisLockId,
                   dmutex, relPending, alock, bodies, toPrimary, toWorker,
                   wLockId, pending, sent, log>>

\* the initial content is stored when the file does not exist, or when the
\* key has no value and lockRedis() got the distributed mutex
MakeInit ==
    /\ Idle
    /\ manager.made = "init"
    /\ IF disk # NoFile
       THEN UNCHANGED <<disk, redisLockId, dmutex, relPending>>
       ELSE IF source = "jsonFile"
       THEN /\ disk' = Stringify(manager.initialContent)
            /\ UNCHANGED <<redisLockId, dmutex, relPending>>
       ELSE \/ /\ dmutex = 0
               /\ dmutex' = 1
               /\ redisLockId' = 1
               /\ disk' = Stringify(manager.initialContent)
               /\ relPending' = relPending + 1
            \/ /\ redisLockId' = 0
               /\ UNCHANGED <<disk, dmutex, relPending>>
    /\ MakeReturn
    /\ UNCHANGED <<source, inMemory, lockId, lockIdTimer, primaryLock, alock,
                   bodies, toPrimary, toWorker, wLockId, pending, sent, log>>

\* a file or a key that exists before the document is made
OldContent == Obj([counter |-> Num(7)])

InitMake ==
    /\ manager \in [client : BOOLEAN, initialContent : {Undef, CounterContent},
                    made : {"no"}]
    /\ source \in Sources
    /\ inMemory = Undef
    /\ disk \in IF source = "inMemory" THEN {NoFile}
                ELSE {NoFile, Stringify(OldContent)}
    /\ lockId = 0
    /\ lockIdTimer = [cur |-> FALSE, stale |-> 0]
    /\ primaryLock = [locked |-> FALSE, timer |-> [cur |-> FALSE, stale |-> 0]]
    /\ redisLockId = 0
    /\ dmutex = 0
    /\ relPending = 0
    /\ alock = <<>>
    /\ tasks = <<>>
    /\ bodies = {}
    /\ listening = {}
    /\ toPrimary = [w \in Workers |-> <<>>]
    /\ toWorker = [w \in Workers |-> <<>>]
    /\ wLockId = [w \in Workers |-> 0]
    /\ wfib = [w \in Workers |-> WFib(w, <<>>)]
    /\ pending = {}
    /\ sent = <<>>
    /\ log = InitLog

NextMake ==
    \/ MakeStart
    \/ MakeInit
    \/ \E t \in DOMAIN tasks : LStart(t)
    \/ \E t \in DOMAIN tasks : AGet(t)
    \/ \E t \in DOMAIN tasks : AGetDone(t)
    \/ \E t \in DOMAIN tasks : MutAcquire(t)
    \/ \E t \in DOMAIN tasks : MutRedisDone(t)
    \/ RedisReleaseDone
    \/ \E b \in bodies : BodyLoaded(b)
    \/ \E b \in bodies : WriteLand(b)
    \/ \E w \in Workers : Deliver(w)
    \/ \E t \in DOMAIN tasks : HGate1(t)
    \/ \E t \in DOMAIN tasks : HGate2(t)
    \/ \E t \in DOMAIN tasks : HGet(t)
    \/ \E t \in DOMAIN tasks : HRespond(t)
    \/ \E f \in DOMAIN wfib : WStart(f)
    \/ \E w \in Workers : WRecv(w)
    \/ \E f \in DOMAIN wfib : WTimeout(f)
    \/ \E f \in DOMAIN wfib : WStep(f)

SpecMake == InitMake /\ [][NextMake]_vars

\* makeDocument with a centralizedStore source on a manager built without a
\* store client
RedisWithoutClient == source = "redis" /\ ~manager.client

Item(id, n) == Obj([id |-> Num(id), n |-> Num(n)])

OpDocs ==
    {Obj([counter |-> Num(0),
          items |-> Arr(<<Item(1, 10), Num(5), Item(1, 20), Num(5)>>)]),
     Obj([counter |-> Num(0), items |-> Arr(<<>>)])}

OpSelectors == {<<>>, <<"items">>, <<"counter">>, <<"missing">>}

OpBatches ==
    {<<>>,
     <<Query("push", <<"items">>, "", Num(8), 0),
       Query("set", <<>>, "flag", Num(9), 0),
       Query("unshift", <<"items">>, "", Num(7), 0)>>,
     <<Query("set", <<"items">>, "0", Num(9), 0)>>,
     <<Query("set", <<"items">>, "flag", Num(9), 0)>>,
     <<Query("push", <<"counter">>, "", Num(8), 0),
       Query("set", <<"missing">>, "flag", Num(9), 0)>>}

OpCalls ==
    {Query("set", sel, key, Num(9), 1) : sel \in OpSelectors, key \in {"flag", "0"}}
    \cup {Query(type, sel, "", Num(9), 1) :
            type \in {"push", "unshift"}, sel \in OpSelectors}
    \cup {Query(type, sel, "", Undef, 1) : type \in {"pop", "shift"}, sel \in OpSelectors}
    \cup {Query("splice", sel, "",
                Args("splice", [startIndex |-> start, deleteCount |-> cnt]), 1) :
            sel \in OpSelectors, start \in {-1, 0, 1, 5}, cnt \in {0, 1, 2}}
    \cup {Query("removeItemFromArray", sel, "id", Item(id, 0), 1) :
            sel \in OpSelectors, id \in {1, 3}}
    \cup {Query("removeItemFromArray", sel, "", Num(n), 1) :
            sel \in OpSelectors, n \in {5, 6}}
    \cup {Query("updateItemInArray", sel, "id",
                Args("update", [item |-> Item(id, 0), updatedItem |-> Obj([n |-> Num(99)])]), 1) :
            sel \in OpSelectors, id \in {1, 3}}
    \cup {Query("updateItemInArray", sel, "",
                Args("update", [item |-> Num(n), updatedItem |-> Num(6)]), 1) :
            sel \in OpSelectors, n \in {5, 6}}
    \cup {Query("arraySet", <<>>, "", Args("queries", queries), 1) : queries \in OpBatches}
    \cup {Query("updateJsonFromProvided", <<>>, "", Obj([counter |-> Num(3)]), 1)}

GetRoot == Query("get", <<>>, "", Undef, 2)

InitOps ==
    \E src \in Sources, doc \in OpDocs, op \in OpCalls, byProxy \in BOOLEAN :
        InitState(src, doc,
                  IF byProxy THEN <<>> ELSE [f \in {1} |-> LocalTask(<<op, GetRoot>>)],
                  [f \in {1} |-> WFib(1, IF byProxy THEN <<op, GetRoot>> ELSE <<>>)],
                  Workers, [InitLog EXCEPT !.op = op])

NextOps ==
    \/ \E t \in DOMAIN tasks : LStart(t)
    \/ \E t \in DOMAIN tasks : AGet(t)
    \/ \E t \in DOMAIN tasks : AGetDone(t)
    \/ \E t \in DOMAIN tasks : MutAcquire(t)
    \/ \E t \in DOMAIN tasks : MutRedisDone(t)
    \/ RedisReleaseDone
    \/ \E b \in bodies : BodyLoaded(b)
    \/ \E b \in bodies : WriteLand(b)
    \/ \E w \in Workers : Deliver(w)
    \/ \E t \in DOMAIN tasks : HGate1(t)
    \/ \E t \in DOMAIN tasks : HGate2(t)
    \/ \E t \in DOMAIN tasks : HGet(t)
    \/ \E t \in DOMAIN tasks : HMut(t)
    \/ \E t \in DOMAIN tasks : HOther(t)
    \/ \E t \in DOMAIN tasks : HRespond(t)
    \/ \E f \in DOMAIN wfib : WStart(f)
    \/ \E w \in Workers : WRecv(w)
    \/ \E f \in DOMAIN wfib : WTimeout(f)
    \/ \E f \in DOMAIN wfib : WStep(f)

SpecOps == InitOps /\ [][NextOps]_vars

(***************************************************************************)
(* Properties of one call.                                                 *)
(***************************************************************************)
\* what getAllData() gives before the call
InitialData ==
    IF source = "inMemory" THEN manager.initialContent
    ELSE IF source = "jsonFile" THEN Parse(Stringify(manager.initialContent))
    ELSE Stringify(manager.initialContent)

\* the store before the call
InitialDisk ==
    IF source = "inMemory" THEN NoFile ELSE Stringify(manager.initialContent)

\* the value the selector of the call resolves to
Target0 == rs(log.op.selector, InitialData)

SequenceOps == {"push", "unshift", "pop", "shift", "splice",
                "removeItemFromArray", "updateItemInArray"}

WrongShape ==
    \/ log.op.type = "set" /\ ~IsRecord(Target0)
    \/ log.op.type \in SequenceOps /\ ~IsArray(Target0)

RightShape ==
    \/ log.op.type = "set" /\ IsRecord(Target0)
    \/ log.op.type \in SequenceOps /\ IsArray(Target0)

\* the call is made through the proxy of worker 1
ByProxy == 1 \notin DOMAIN tasks

\* the call has returned or thrown, and the get after it has not started
OpReturned ==
    IF ByProxy
    THEN wfib[1].n = 1 /\ wfib[1].pc \in {"idle", "failed"}
    ELSE tasks[1].pc \in {"idle", "failed"} /\ Len(tasks[1].script) = 1

OpResult == IF ByProxy THEN wfib[1].s ELSE tasks[1].res
OpRejected == IF ByProxy THEN wfib[1].err ELSE tasks[1].err

\* the errors of the locks and of the channel: the proxy's timeout, or the
\* distributed mutex not obtained
LockOrTransportError ==
    log.fired > 0 \/ (source = "redis" /\ redisLockId = 0)

\* C13: a call whose selector resolves to a value of the wrong shape leaves
\* the in-memory document and the store as they were, starts no write, and
\* when it has returned it has not thrown (a rejection comes only from a
\* lock or from the channel) and its value is false or undefined.
C13_WrongShapeIsSoftFailure ==
    WrongShape =>
        /\ inMemory = manager.initialContent
        /\ disk = InitialDisk
        /\ \A b \in bodies : b.stage = "load"
        /\ OpReturned =>
            /\ OpRejected => LockOrTransportError
            /\ ~OpRejected => OpResult \in {False, Undef}

C13_Witness == WrongShape /\ OpReturned /\ ~OpRejected /\ bodies = {}

\* the call has ended without an error of a lock or of the channel, its
\* writes have landed and the get after it has returned
OpOver == Quiet /\ ~OpRejected /\ ~LockOrTransportError

\* the target of the call in the document as it is now
TargetNow == rs(log.op.selector, Document)

\* the change set, push or unshift is to make
Written ==
    CASE log.op.type = "set" ->
            rs(log.op.selector \o <<log.op.key>>, Document) = log.op.value
      [] log.op.type = "push" ->
            IsArray(TargetNow)
            /\ Elems(TargetNow) = Append(Elems(Target0), log.op.value)
      [] log.op.type = "unshift" ->
            IsArray(TargetNow)
            /\ Elems(TargetNow) = <<log.op.value>> \o Elems(Target0)
      [] OTHER -> TRUE

\* C14: when the selector resolves to a value of the right shape, a set, push
\* or unshift that has returned has returned true, and once the call is over
\* the document holds the key written, the value appended or the value
\* prepended; on the authority and through a proxy alike.
C14_WriteDoneAndTrue ==
    (RightShape /\ log.op.type \in {"set", "push", "unshift"}) =>
        /\ (OpReturned /\ ~OpRejected) => OpResult = True
        /\ OpOver => Written

\* pop or shift on a sequence that has an element, or a splice whose range
\* lies inside the sequence
RemovalCase ==
    /\ IsArray(Target0)
    /\ \/ log.op.type \in {"pop", "shift"} /\ Len(Elems(Target0)) > 0
       \/ /\ log.op.type = "splice"
          /\ log.op.value.v.startIndex >= 0
          /\ log.op.value.v.startIndex + log.op.value.v.deleteCount
                <= Len(Elems(Target0))

\* what the call is to return
Removed ==
    LET e == Elems(Target0)
        start == log.op.value.v.startIndex
        cnt == log.op.value.v.deleteCount
    IN CASE log.op.type = "pop" -> e[Len(e)]
         [] log.op.type = "shift" -> e[1]
         [] log.op.type = "splice" -> Arr(SubSeq(e, start + 1, start + cnt))

\* what the sequence is to hold afterwards
Remainder ==
    LET e == Elems(Target0)
        start == log.op.value.v.startIndex
        cnt == log.op.value.v.deleteCount
    IN CASE log.op.type = "pop" -> SubSeq(e, 1, Len(e) - 1)
         [] log.op.type = "shift" -> SubSeq(e, 2, Len(e))
         [] log.op.type = "splice" ->
                SubSeq(e, 1, start) \o SubSeq(e, start + cnt + 1, Len(e))

\* C15: on a sequence, a pop, shift or splice that has returned has returned
\* the last element, the first element or the removed sub-sequence, and once
\* the call is over the sequence holds the other elements, in their order.
C15_RemovedReturnedRestKept ==
    RemovalCase =>
        /\ (OpReturned /\ ~OpRejected) => OpResult = Removed
        /\ OpOver => (IsArray(TargetNow) /\ Elems(TargetNow) = Remainder)

\* the elements of a sequence that item designates: those whose key field
\* equals item's key field or, without key, those equal to item
Designated(elems, item, key) ==
    {i \in 1..Len(elems) :
        IF key = "" THEN elems[i] = item
        ELSE /\ elems[i].t = "obj" /\ key \in DOMAIN elems[i].v
             /\ item.t = "obj" /\ key \in DOMAIN item.v
             /\ elems[i].v[key] = item.v[key]}

\* the first of them, 0 when there is none
FirstDesignated(elems, item, key) ==
    LET d == Designated(elems, item, key) IN
    IF d = {} THEN 0 ELSE CHOOSE i \in d : \A j \in d : i <= j

\* C16: removeItemFromArray on a sequence that has returned has returned true
\* when an element is designated and false when none is, and once the call is
\* over the sequence is the old one without the first designated element, or
\* the old one when there is none.
C16_FirstMatchRemoved ==
    (log.op.type = "removeItemFromArray" /\ IsArray(Target0)) =>
        LET e == Elems(Target0)
            i == FirstDesignated(e, log.op.value, log.op.key)
        IN /\ (OpReturned /\ ~OpRejected) =>
                    OpResult = (IF i = 0 THEN False ELSE True)
           /\ OpOver =>
                /\ IsArray(TargetNow)
                /\ Elems(TargetNow) =
                     IF i = 0 THEN e
                     ELSE SubSeq(e, 1, i - 1) \o SubSeq(e, i + 1, Len(e))

\* the fields of updatedItem put onto a record, its other fields kept
Merged(element, updatedItem) ==
    Obj([k \in DOMAIN element.v \cup DOMAIN updatedItem.v |->
            IF k \in DOMAIN updatedItem.v THEN updatedItem.v[k] ELSE element.v[k]])

\* C17: once an updateItemInArray that located an element is over, that
\* element has the fields of updatedItem with updatedItem's values and its
\* own other fields when it was a record, is updatedItem when it was not, and
\* every other element of the sequence is the one it was.
C17_LocatedElementMerged ==
    (log.op.type = "updateItemInArray" /\ IsArray(Target0)) =>
        LET e == Elems(Target0)
            i == FirstDesignated(e, log.op.value.v.item, log.op.key)
            u == log.op.value.v.updatedItem
        IN (OpOver /\ i # 0) =>
                /\ IsArray(TargetNow)
                /\ Elems(TargetNow) =
                     [j \in 1..Len(e) |->
                        IF j # i THEN e[j]
                        ELSE IF e[j].t = "obj" /\ u.t = "obj" THEN Merged(e[j], u)
                        ELSE u]

\* what the get made after the call has returned
GetResult == IF ByProxy THEN wfib[1].s ELSE tasks[1].res

\* C18: when updateJsonFromProvided(content) has completed and the get of the
\* root made after it has returned, with no other caller, the get has
\* returned content.
C18_ReplaceAllThenGet ==
    (log.op.type = "updateJsonFromProvided" /\ OpOver) => GetResult = log.op.value

\* C19: when a set on a record of the document has resolved and the get made
\* after it has returned, with no other caller, the value the get returned
\* has the key with the value the set wrote.
C19_GetSeesPrecedingSet ==
    (/\ log.op.type = "set"
     /\ IsRecord(rs(log.op.selector, manager.initialContent))
     /\ OpOver)
        => rs(log.op.selector \o <<log.op.key>>, GetResult) = log.op.value

\* the document reached by making the sub-operations of a batch one after
\* another as individual set, push and unshift calls: a call whose target has
\* the wrong shape changes nothing
RECURSIVE Sequentially(_, _)
Sequentially(queries, data) ==
    IF queries = <<>> THEN data
    ELSE Sequentially(Tail(queries), Apply(Head(queries), data).data)

\* C20: when a batch is over, the document is the one reached by making its
\* set, push and unshift sub-operations one after another in list order as
\* individual calls, and the store holds the text of that document.
C20_BatchIsSequential ==
    (log.op.type = "arraySet" /\ OpOver)
        => /\ Document = Sequentially(log.op.value.v, InitialData)
           /\ source # "inMemory"
                => disk = Stringify(Sequentially(log.op.value.v, InitialData))

(***************************************************************************)
(* The proxy against the authority.                                        *)
(***************************************************************************)
\* what the store gives back after update(data) has written it
Reread(data) ==
    IF source = "jsonFile" THEN Parse(update(data)) ELSE update(data)

\* the document after the call made directly on the authority: the wrapped
\* body applied to what getAllData() gave, written when the body calls
\* update(data); updateJsonFromProvided writes its argument and leaves the
\* in-memory object alone
DirectDocument ==
    LET a == Apply(log.op, InitialData) IN
    IF source = "inMemory"
    THEN IF log.op.type = "updateJsonFromProvided" THEN InitialData ELSE a.data
    ELSE IF log.op.type = "updateJsonFromProvided" THEN Reread(log.op.value)
    ELSE IF a.ok THEN Reread(a.data)
    ELSE InitialData

\* what the call made directly on the authority returns: the wrapper of
\* lockMethod returns nothing
DirectResult == Undef

\* C21: a call made through a worker's proxy returns what the same call made
\* directly on the authority returns, and once it is over the document is the
\* one the direct call leaves.
C21_ProxyAsAuthority ==
    ByProxy =>
        /\ (OpReturned /\ ~OpRejected) => OpResult = DirectResult
        /\ OpOver => Document = DirectDocument

(***************************************************************************)
(* The end of a transaction on the authority.                              *)
(***************************************************************************)
\* the finally of transaction() runs for caller t in this step
TxCompletes(t) ==
    /\ tasks[t].kind = "local" /\ tasks[t].pc = "cbEnd"
    /\ tasks'[t].pc # "cbEnd"

\* every transaction() on the primary has returned or thrown
TxnsOver ==
    \A t \in DOMAIN tasks :
        tasks[t].kind = "local"
            => /\ tasks[t].script = <<>>
               /\ tasks[t].pc \in {"idle", "failed"}

\* C22: when a transaction() on the authority whose callback was invoked
\* completes, the busy flag is cleared and the call rejects exactly when the
\* callback threw; and once every transaction has completed, the distributed
\* mutex taken by the authority is free or its release is under way.
C22_TransactionAlwaysReleases ==
    /\ [][\A t \in DOMAIN tasks :
            TxCompletes(t) =>
                /\ ~primaryLock'.locked
                /\ tasks[t].err <=> tasks'[t].pc = "failed"]_vars
    /\ [](TxnsOver => (dmutex = 0 \/ relPending > 0))

(***************************************************************************)
(* The end of a transaction on a worker.                                   *)
(***************************************************************************)
\* caller f on a worker runs on in this step
Moves(f) == wfib[f].pc = "resumed" /\ wfib'[f] # wfib[f]

\* the callback of f's transaction has returned (its set has settled) or
\* thrown (its get was rejected)
CallbackEnded(f) ==
    \/ wfib[f].stage = "txSet"
    \/ wfib[f].stage = "txGet" /\ wfib[f].err

\* worker w sends a release request in this step
ReleaseSent(w) ==
    /\ Len(toPrimary'[w]) = Len(toPrimary[w]) + 1
    /\ toPrimary'[w][Len(toPrimary'[w])].q.type = "release"

\* C23: when the callback of a worker's transaction ends, returned or
\* thrown, the worker sends one release request and transaction() waits for
\* its answer; a release request is sent at no other step; transaction()
\* rejects after its release only with the error of the release; and when
\* the lock request fails, transaction() rejects and nothing is sent.
C23_ReleaseOnceAfterCallback ==
    [][/\ \A f \in DOMAIN wfib :
            /\ (Moves(f) /\ CallbackEnded(f))
                    => /\ ReleaseSent(wfib[f].home)
                       /\ wfib'[f].stage = "txRelease" /\ wfib'[f].pc = "wait"
            /\ (Moves(f) /\ wfib[f].stage = "txRelease")
                    => (wfib'[f].pc = "failed" <=> wfib[f].err)
            /\ (Moves(f) /\ wfib[f].stage = "txLock" /\ wfib[f].err)
                    => /\ wfib'[f].pc = "failed"
                       /\ toPrimary' = toPrimary
       /\ \A w \in Workers :
            ReleaseSent(w)
                => \E f \in DOMAIN wfib :
                      wfib[f].home = w /\ Moves(f) /\ CallbackEnded(f)]_vars

\* the callback has thrown and the release has been sent
C23_Witness ==
    \E f \in DOMAIN wfib :
        wfib[f].stage = "txRelease" /\ wfib[f].pc = "wait" /\ wfib[f].err

(***************************************************************************)
(* A holder that disappears: each of two workers runs one transaction, and *)
(* a worker may exit while it holds a token.  The timer of a token fires   *)
(* when its time has passed.                                               *)
(***************************************************************************)
\* the timer of a token that never fires
LockIdTimerNever == FALSE

\* the 5e3 of setLockId have passed: the callback of the timer runs
LockIdTimerFires ==
    /\ Idle
    /\ \/ /\ lockIdTimer.cur
          /\ clearLockId
       \/ /\ lockIdTimer.stale > 0
          /\ lockIdTimer' = [cur |-> FALSE, stale |-> lockIdTimer.stale - 1]
          /\ lockId' = 0
    /\ log' = [log EXCEPT !.holder = 0, !.expired = TRUE]
    /\ UNCHANGED <<manager, source, inMemory, disk, primaryLock, redisLockId, dmutex,
                   relPending, alock, tasks, bodies, wvars>>

\* the process of a worker exits inside the callback of its transaction: its
\* handlers are gone and it sends nothing more; a message that arrives for it
\* later finds no handler (WRecv)
Crash(f) ==
    /\ wfib[f].pc = "wait" /\ wfib[f].stage \in {"txGet", "txSet"}
    /\ wfib' = [wfib EXCEPT ![f] = [@ EXCEPT !.pc = "crashed", !.script = <<>>]]
    /\ pending' = {h \in pending : h.f # f}
    /\ UNCHANGED <<avars, listening, toPrimary, toWorker, wLockId, sent, log>>

ExpiryPrograms == [w \in Workers |-> <<TxnCall(10 * w)>>]

InitExpiry ==
    \E src \in GateSources :
        InitWith(src, CounterContent, <<>>,
                 [w \in Workers |-> WFib(w, ExpiryPrograms[w])], Workers)

NextExpiry ==
    \/ \E t \in DOMAIN tasks : AGet(t)
    \/ \E t \in DOMAIN tasks : AGetDone(t)
    \/ \E t \in DOMAIN tasks : MutAcquire(t)
    \/ \E b \in bodies : BodyLoaded(b)
    \/ \E b \in bodies : WriteLand(b)
    \/ LockIdTimerFires
    \/ \E w \in Workers : Deliver(w)
    \/ \E t \in DOMAIN tasks : HGate1(t)
    \/ \E t \in DOMAIN tasks : HGate2(t)
    \/ \E t \in DOMAIN tasks : HPollL(t)
    \/ \E t \in DOMAIN tasks : HLock(t)
    \/ \E t \in DOMAIN tasks : HRelease(t)
    \/ \E t \in DOMAIN tasks : HGet(t)
    \/ \E t \in DOMAIN tasks : HMut(t)
    \/ \E t \in DOMAIN tasks : HRespond(t)
    \/ \E f \in DOMAIN wfib : WStart(f)
    \/ \E w \in Workers : WRecv(w)
    \/ \E f \in DOMAIN wfib : WTimeout(f)
    \/ \E f \in DOMAIN wfib : WStep(f)
    \/ \E f \in DOMAIN wfib : Crash(f)

\* an event loop runs what is ready, and a timer whose time has passed fires
SpecExpiry ==
    InitExpiry /\ [][NextExpiry]_vars /\ WF_vars(NextExpiry) /\ WF_vars(LockIdTimerFires)

\* C24: a token does not stay outstanding forever: whenever lockId holds a
\* token, also one whose holder has exited without a release, lockId is
\* cleared later on.
C24_TokenEventuallyCleared == (lockId # 0) ~> (lockId = 0)

\* the holder of a token has exited, its token has expired, and the lock
\* request of another worker has been granted
C24_Witness ==
    \E f \in DOMAIN wfib :
        /\ wfib[f].pc = "crashed"
        /\ log.expired
        /\ lockId # 0
        /\ log.holder \notin {0, wfib[f].home}

(***************************************************************************)
(* lockMethod of utils around a function of the user: callers on one       *)
(* process call functions wrapped under one lockName.  A running function  *)
(* is a member of bodies at the stage "run".  AsyncLock is made with       *)
(* maxExecutionTime: 5e3: when a function has held the lock for that long, *)
(* acquire rejects and the lock passes on.                                 *)
(***************************************************************************)
LockedCall(cid) == Query("locked", <<>>, "", Undef, cid)

\* originalMethod(...args) is called
Running(q) == [cid |-> q.cid, w |-> 0, q |-> q, stage |-> "run", data |-> Undef]

\* the wrapper is called: lock.acquire runs the function at once when no
\* function holds the lock, else the call waits in the queue
LmCall(t) ==
    /\ tasks[t].kind = "local" /\ tasks[t].pc = "idle" /\ tasks[t].script # <<>>
    /\ Head(tasks[t].script).type = "locked"
    /\ LET c == Head(tasks[t].script)
           task == [tasks[t] EXCEPT !.script = Tail(@), !.q = c, !.ret = "idle",
                                    !.err = FALSE, !.res = Undef]
       IN IF alock = <<>>
          THEN /\ alock' = <<t>>
               /\ bodies' = bodies \cup {Running(c)}
               /\ tasks' = SetTask(t, [task EXCEPT !.pc = "lmWait"])
          ELSE /\ alock' = Append(alock, t)
               /\ tasks' = SetTask(t, [task EXCEPT !.pc = "mutQueued"])
               /\ UNCHANGED bodies
    /\ UNCHANGED <<manager, source, inMemory, disk, lockId, lockIdTimer, primaryLock,
                   redisLockId, dmutex, relPending, wvars, log>>

\* the lock has passed to the call at the head of the queue: its function is
\* called
LmGranted(t) ==
    /\ tasks[t].pc = "mutQueued"
    /\ alock # <<>> /\ Head(alock) = t
    /\ bodies' = bodies \cup {Running(tasks[t].q)}
    /\ tasks' = SetTask(t, [tasks[t] EXCEPT !.pc = "lmWait"])
    /\ UNCHANGED <<manager, source, inMemory, disk, lockId, lockIdTimer, primaryLock,
                   redisLockId, dmutex, relPending, alock, wvars, log>>

\* the function returns its value or throws: resolve(await originalMethod())
\* or reject(error), and the lock passes on; when acquire has been rejected
\* before, the promise of the wrapper is settled already
LmFinish(b) ==
    /\ Idle
    /\ b \in bodies /\ b.stage = "run"
    /\ bodies' = bodies \ {b}
    /\ LET ts == {t \in DOMAIN tasks : tasks[t].pc = "lmWait" /\ tasks[t].q.cid = b.cid}
       IN IF ts = {}
          THEN UNCHANGED <<tasks, alock>>
          ELSE \E t \in ts, err \in BOOLEAN :
                /\ tasks' = SetTask(t, Return(tasks[t],
                                              IF err THEN Undef ELSE Num(b.cid), err))
                /\ alock' = Tail(alock)
    /\ UNCHANGED <<manager, source, inMemory, disk, lockId, lockIdTimer, primaryLock,
                   redisLockId, dmutex, relPending, wvars, log>>

\* maxExecutionTime: 5e3 has passed since the function was called: acquire
\* rejects, the wrapper rejects with that error and the lock passes on, while
\* the function runs on
LmExecTimeout(t) ==
    /\ Idle
    /\ log.fired < MaxFired
    /\ tasks[t].pc = "lmWait"
    /\ alock # <<>> /\ Head(alock) = t
    /\ alock' = Tail(alock)
    /\ tasks' = SetTask(t, Return(tasks[t], Undef, TRUE))
    /\ log' = [log EXCEPT !.fired = @ + 1]
    /\ UNCHANGED <<manager, source, inMemory, disk, lockId, lockIdTimer, primaryLock,
                   redisLockId, dmutex, relPending, bodies, wvars>>

LockCallers == 1..3

InitLock ==
    InitWith("inMemory", CounterContent,
             [t \in LockCallers |-> LocalTask(<<LockedCall(10 * t + 1),
                                                LockedCall(10 * t + 2)>>)],
             <<>>, {})

NextLock ==
    \/ \E t \in DOMAIN tasks : LmCall(t)
    \/ \E t \in DOMAIN tasks : LmGranted(t)
    \/ \E b \in bodies : LmFinish(b)
    \/ \E t \in DOMAIN tasks : LmExecTimeout(t)
    \/ \E t \in DOMAIN tasks : MutQueueTimeout(t)

SpecLock == InitLock /\ [][NextLock]_vars

\* the wrapped functions that are running
RunningNow == {b \in bodies : b.stage = "run"}

\* C25: at most one function wrapped under the lockName is running; a call
\* that has been rejected has no function still running; and a call that is
\* rejected while it waits for the lock has not had its function called.
C25_WrappedRunOneAtATime ==
    /\ [](Cardinality(RunningNow) <= 1)
    /\ [](\A t \in DOMAIN tasks :
            tasks[t].pc = "failed" => \A b \in RunningNow : b.cid # tasks[t].q.cid)
    /\ [][\A t \in DOMAIN tasks :
            (tasks[t].pc = "mutQueued" /\ tasks'[t].pc = "failed")
                => bodies' = bodies]_vars

(***************************************************************************)
(* Lock and release requests at the listener.                              *)
(***************************************************************************)
\* the listener answers request t of the given type in this step
Served(t, type) ==
    /\ tasks[t].pc = "dispatch" /\ tasks[t].q.type = type
    /\ t \in DOMAIN tasks' /\ tasks'[t].pc = "respond"

\* worker w is the one the current token was given to
HoldsCurrent(w) == lockId # 0 /\ log.holder = w

\* C26: a lock request of the worker that holds the current token is
\* answered with an error and leaves the token and its timer as they are;
\* every other lock request that is served finds no token, mints one, arms
\* its timer and is answered with the token that is now current.
C26_LockRequestServed ==
    [][\A t \in DOMAIN tasks :
        Served(t, "lock") =>
            IF HoldsCurrent(tasks[t].w)
            THEN /\ tasks'[t].err
                 /\ lockId' = lockId /\ lockIdTimer' = lockIdTimer
            ELSE /\ ~tasks'[t].err
                 /\ lockId = 0 /\ lockId' # 0
                 /\ lockIdTimer'.cur
                 /\ tasks'[t].res = Num(lockId')]_vars

\* the listener answers release request t in this step, from its release
\* branch or from a wait that has failed
Answered(t, type) ==
    /\ tasks[t].q.type = type
    /\ tasks[t].pc # "respond"
    /\ t \in DOMAIN tasks' /\ tasks'[t].pc = "respond"

\* request t presents the token that is active
PresentsActive(t) == lockId # 0 /\ tasks[t].q.lockId = lockId

\* C27: a release request is acknowledged exactly when it is served while it
\* presents the active token, and the token is then cleared; a release
\* request answered with an error, with no token active or with another
\* token, leaves the token and its timer as they are.
C27_ReleaseNeedsActiveToken ==
    [][\A t \in DOMAIN tasks :
        Answered(t, "release") =>
            /\ ~tasks'[t].err <=> (Served(t, "release") /\ PresentsActive(t))
            /\ ~tasks'[t].err => (lockId' = 0 /\ tasks'[t].res = True)
            /\ tasks'[t].err => (lockId' = lockId /\ lockIdTimer' = lockIdTimer)]_vars

\* a release request with another token than the active one has been refused
C27_Witness ==
    \E t \in DOMAIN tasks :
        /\ tasks[t].q.type = "release" /\ tasks[t].pc = "respond" /\ tasks[t].err
        /\ lockId # 0 /\ tasks[t].q.lockId # lockId

(***************************************************************************)
(* The order of the requests a worker sends under its token.  A caller     *)
(* sends its next request when the one before has been answered, so the    *)
(* requests of a caller arrive in the order of its program.                *)
(***************************************************************************)
\* request t of a worker takes effect in this step: its get reads the
\* document, or its release is served
TakesEffect(t) ==
    \/ Served(t, "release")
    \/ /\ tasks[t].q.type = "get"
       /\ tasks[t].pc \in {"get", "getIO"}
       /\ t \in DOMAIN tasks' /\ tasks'[t].pc = "respond"

\* body b is of a mutation that the worker of request t sent under the same
\* token before t, and that has not been written yet
EarlierUnwritten(b, t) ==
    /\ b.w = tasks[t].w
    /\ b.q.lockId = tasks[t].q.lockId
    /\ \/ b.cid < tasks[t].q.cid
       \/ b.cid = tasks[t].q.cid /\ tasks[t].q.type = "release"

\* C28: the requests a worker sends under the token it holds take effect in
\* the order they arrive: when one of them takes effect, no mutation the
\* worker sent before it under that token is still to be loaded or written.
C28_TokenRequestsInArrivalOrder ==
    [][\A t \in DOMAIN tasks :
        (tasks[t].kind = "handler" /\ PresentsActive(t) /\ TakesEffect(t))
            => \A b \in bodies : ~EarlierUnwritten(b, t)]_vars

(***************************************************************************)
(* The distributed mutex around a mutation on the redis source.            *)
(***************************************************************************)
\* this authority holds the distributed mutex: it has acquired it and no
\* release of it has been answered
HoldsMutex == dmutex = 1

\* C29: on the redis source, while a mutation is between its load and the
\* end of its write, its authority holds the distributed mutex.
C29_WindowInsideMutex ==
    source = "redis" => \A b \in bodies : HoldsMutex

(***************************************************************************)
(* Bounded waits: the primary runs a transaction after waiting for         *)
(* something else, while each worker runs a transaction; no call of a      *)
(* proxy waits 5e3 for its answer.                                         *)
(***************************************************************************)
InitWait ==
    \E src \in GateSources :
        InitWith(src, CounterContent,
                 [f \in {1} |-> LocalTask(<<PauseCall, TxnCall(1)>>)],
                 [w \in Workers |-> WFib(w, <<TxnCall(10 * w)>>)],
                 Workers)

NextWait ==
    \/ \E t \in DOMAIN tasks : LStart(t)
    \/ \E t \in DOMAIN tasks : LWake(t)
    \/ \E t \in DOMAIN tasks : TxStart(t)
    \/ \E t \in DOMAIN tasks : TxPoll(t)
    \/ \E t \in DOMAIN tasks : TxLockRedis(t)
    \/ \E t \in DOMAIN tasks : AGet(t)
    \/ \E t \in DOMAIN tasks : AGetDone(t)
    \/ \E t \in DOMAIN tasks : CbSet(t)
    \/ \E t \in DOMAIN tasks : MutAcquire(t)
    \/ \E b \in bodies : BodyLoaded(b)
    \/ \E b \in bodies : WriteLand(b)
    \/ \E t \in DOMAIN tasks : TxEnd(t)
    \/ \E w \in Workers : Deliver(w)
    \/ \E t \in DOMAIN tasks : HGate1(t)
    \/ \E t \in DOMAIN tasks : HPollP(t)
    \/ \E t \in DOMAIN tasks : HGate2(t)
    \/ \E t \in DOMAIN tasks : HPollL(t)
    \/ \E t \in DOMAIN tasks : HLock(t)
    \/ \E t \in DOMAIN tasks : HRelease(t)
    \/ \E t \in DOMAIN tasks : HGet(t)
    \/ \E t \in DOMAIN tasks : HMut(t)
    \/ \E t \in DOMAIN tasks : HRespond(t)
    \/ \E f \in DOMAIN wfib : WStart(f)
    \/ \E w \in Workers : WRecv(w)
    \/ \E f \in DOMAIN wfib : WStep(f)

SpecWait == InitWait /\ [][NextWait]_vars

\* the pcs of the bounded waits: of transaction() for the token, of a
\* request for the busy flag, of a request for the token
WaitPcs == {"txWaitL", "waitP", "waitL"}

\* the gate a wait is for is open
GateOpen(pc) == IF pc = "waitP" THEN ~primaryLock.locked ELSE lockId = 0

\* one sleep of the wait of t is over in this step
Polls(t) ==
    /\ tasks[t].pc \in WaitPcs
    /\ t \in DOMAIN tasks' /\ tasks'[t] # tasks[t]

\* the wait of t ends with the error of the lock
WaitFails(t) ==
    /\ Polls(t)
    /\ tasks'[t].err
    /\ tasks'[t].pc = IF tasks[t].kind = "local" THEN "failed" ELSE "respond"

\* C30: a wait for the token or for the busy flag makes at most MaxTry
\* attempts; each attempt either sees the gate open and goes on, or is
\* counted, or is the last one and fails with the gate closed; and a wait
\* that fails sets no busy flag, mints or clears no token, and applies
\* nothing to the document: transaction() rejects without its callback, a
\* request is answered with the error.
C30_WaitsBoundedAndFailClean ==
    /\ [](\A t \in DOMAIN tasks :
            tasks[t].pc \in WaitPcs
                => (tasks[t].tryCount >= 1 /\ tasks[t].tryCount <= MaxTry))
    /\ [][\A t \in DOMAIN tasks :
            Polls(t) =>
                \/ /\ GateOpen(tasks[t].pc)
                   /\ tasks'[t].pc \notin WaitPcs /\ ~tasks'[t].err
                \/ /\ ~GateOpen(tasks[t].pc)
                   /\ tasks[t].tryCount < MaxTry
                   /\ tasks'[t] = [tasks[t] EXCEPT !.tryCount = @ + 1]
                \/ /\ ~GateOpen(tasks[t].pc)
                   /\ tasks[t].tryCount = MaxTry
                   /\ WaitFails(t)
                   /\ UNCHANGED <<primaryLock, lockId, lockIdTimer, inMemory, disk,
                                  bodies, alock>>]_vars

\* the transaction() of the primary has failed after its last attempt, and a
\* request of a worker is being answered with the error of its wait
C30_Witness ==
    /\ 1 \in DOMAIN tasks
    /\ tasks[1].pc = "failed" /\ tasks[1].tryCount = MaxTry
    /\ ~primaryLock.locked

(***************************************************************************)
(* The two gates together                                                  *)
(***************************************************************************)
\* request t passes the gates in this step and goes to its branch
Admitted(t) ==
    /\ tasks[t].kind # "local"
    /\ tasks[t].pc \in {"gate1", "gate2", "waitP", "waitL"}
    /\ t \in DOMAIN tasks' /\ tasks'[t].pc = "dispatch"

\* C31: a request of a worker goes to its branch only while the busy flag of
\* the authority is not set, also at the end of a wait for a token.
C31_NoServiceWhileBusy ==
    [][\A t \in DOMAIN tasks : Admitted(t) => ~primaryLock.locked]_vars

\* C32: no token of a worker is outstanding while the busy flag of the
\* authority is set.
C32_GatesNeverBothClosed == ~(lockId # 0 /\ primaryLock.locked)

\* the callback of the transaction() of caller t has been invoked and has
\* not returned or thrown yet
CallbackRunning(t) == InCallback(t) /\ tasks[t].pc # "cbEnd"

\* C33: the busy flag of the authority is set for as long as the callback of
\* a transaction() on the authority is running.
C33_BusyWhileCallbackRuns ==
    \A t \in DOMAIN tasks : CallbackRunning(t) => primaryLock.locked

(***************************************************************************)
(* The expiry timer of a token                                             *)
(***************************************************************************)
\* a timer of setLockId is armed: the one in the handle or an older one
TimerPending == lockIdTimer.cur \/ lockIdTimer.stale > 0

\* C34: a timer of setLockId is armed exactly when a token is outstanding,
\* and it is the one armed for that token: no timer of an earlier token is
\* left armed; a release that is acknowledged leaves no timer armed.
C34_TimerOnlyForItsToken ==
    /\ [](lockIdTimer.stale = 0 /\ (lockIdTimer.cur <=> lockId # 0))
    /\ [][\A t \in DOMAIN tasks :
            (Served(t, "release") /\ ~tasks'[t].err) => ~TimerPending']_vars

(***************************************************************************)
(* A mutation called on the authority's document object while a worker     *)
(* runs a transaction: the primary sets the key "flag" after something     *)
(* else, worker 1 runs a transaction on the counter, the others read.      *)
(***************************************************************************)
DirectPrograms ==
    [w \in Workers |-> IF w = 1 THEN <<TxnCall(10)>> ELSE <<GetCall(10 * w)>>]

InitDirect ==
    \E src \in GateSources :
        InitWith(src, CounterContent,
                 [f \in {1} |-> LocalTask(<<PauseCall, SetCall(1)>>)],
                 [w \in Workers |-> WFib(w, DirectPrograms[w])],
                 Workers)

NextDirect ==
    \/ \E t \in DOMAIN tasks : LStart(t)
    \/ \E t \in DOMAIN tasks : LWake(t)
    \/ \E t \in DOMAIN tasks : AGet(t)
    \/ \E t \in DOMAIN tasks : AGetDone(t)
    \/ \E t \in DOMAIN tasks : MutAcquire(t)
    \/ \E b \in bodies : BodyLoaded(b)
    \/ \E b \in bodies : WriteLand(b)
    \/ LockExpire
    \/ \E w \in Workers : Deliver(w)
    \/ \E t \in DOMAIN tasks : HGate1(t)
    \/ \E t \in DOMAIN tasks : HGate2(t)
    \/ \E t \in DOMAIN tasks : HPollL(t)
    \/ \E t \in DOMAIN tasks : HLock(t)
    \/ \E t \in DOMAIN tasks : HRelease(t)
    \/ \E t \in DOMAIN tasks : HGet(t)
    \/ \E t \in DOMAIN tasks : HMut(t)
    \/ \E t \in DOMAIN tasks : HRespond(t)
    \/ \E f \in DOMAIN wfib : WStart(f)
    \/ \E w \in Workers : WRecv(w)
    \/ \E f \in DOMAIN wfib : WTimeout(f)
    \/ \E f \in DOMAIN wfib : WStep(f)

SpecDirect == InitDirect /\ [][NextDirect]_vars

\* the key only the primary's direct set writes
Flag == rs(<<"flag">>, Document)

\* C35: while a token of a worker is outstanding, the set called on the
\* authority's document object is not applied to the document.
C35_DirectMutationWaitsForToken ==
    [][(lockId # 0 /\ lockId' # 0) => Flag' = Flag]_vars

=============================================================================
